---- MODULE Spec2Model ----
(***************************************************************************)
(* Bybit exchange adapter (src/src/passivbot/exchanges/bybit.py): the      *)
(* position snapshot, the order commands and the user-stream normalizer,   *)
(* as a state machine over the adapter's in-memory state.                  *)
(***************************************************************************)
EXTENDS Integers, Sequences, FiniteSets, TLC

\* ------------------------------------------------------------------ bounds
\* Largest leg size (an unsigned magnitude) the venue reports.
MaxSize == 1
\* Largest number of elements in one venue list (position legs, stream data).
MaxElems == 2

\* ------------------------------------------------------------ sample data
\* Symbols are sequences of characters, so that a suffix is a suffix.
BTCUSDT == <<"B", "T", "C", "U", "S", "D", "T">>
BTCUSD == <<"B", "T", "C", "U", "S", "D">>
BTCUSDH22 == <<"B", "T", "C", "U", "S", "D", "H", "2", "2">>
ETHUSDT == <<"E", "T", "H", "U", "S", "D", "T">>
USDT == <<"U", "S", "D", "T">>
USD == <<"U", "S", "D">>

\* The symbols an adapter is configured with, one per market variant.
Symbols == {BTCUSDT, BTCUSD, BTCUSDH22}
\* A symbol of the same account that is never the configured one.
OtherSymbol == ETHUSDT
\* Wallet balances the venue reports.
Balances == {0, 1}
\* Venue order ids.
OrderIds == {"a", "b"}

VARIABLES
    symbol,        \* config.symbol.name
    market_type,   \* rtc.market_type: the hint and the appended variant tag
    inverse,       \* rtc.inverse
    hedge_mode,    \* rtc.hedge_mode
    position,      \* self.position
    force_update,  \* self.ts_released["force_update"]
    terminated,    \* order ids the venue has reported Filled or Cancelled
    snap,          \* the snapshot in progress: the two requests of its gather
    ob,            \* self.ob and self.rtc.price
    session,       \* the two socket sessions and the coroutines working on them
    last           \* the last operation: its input, its outcome, its result

vars == <<symbol, market_type, inverse, hedge_mode, position, force_update,
          terminated, snap, ob, session, last>>
rtc == <<symbol, market_type, inverse, hedge_mode>>

\* ------------------------------------------------------- market variant
\* str.endswith
EndsWith(s, suffix) ==
    /\ Len(s) >= Len(suffix)
    /\ SubSeq(s, Len(s) - Len(suffix) + 1, Len(s)) = suffix

\* "tag" in rtc.market_type
InMarketType(tag, mt) == \E i \in DOMAIN mt : mt[i] = tag

\* The market-type hint of the configuration and the default hedge mode of
\* a fresh RuntimeFuturesConfig.
ConfigMarketType == "futures"
DefaultHedgeMode == TRUE

\* init_market_type: the variant fixed from the symbol's suffix.
init_market_type_by_quote(sym) ==
    IF \E i \in 1..Len(sym) : EndsWith(SubSeq(sym, 1, i), USDT)
    THEN [market_type |-> <<ConfigMarketType, "linear_perpetual">>,
          inverse |-> FALSE, hedge_mode |-> DefaultHedgeMode]
    ELSE IF \E i \in 1..Len(sym) : EndsWith(SubSeq(sym, 1, i), USD)
         THEN [market_type |-> <<ConfigMarketType, "inverse_perpetual">>,
               inverse |-> TRUE, hedge_mode |-> FALSE]
         ELSE [market_type |-> <<ConfigMarketType, "inverse_futures">>,
               inverse |-> TRUE, hedge_mode |-> DefaultHedgeMode]
init_market_type(sym) ==
    IF EndsWith(sym, USDT)
    THEN [market_type |-> <<ConfigMarketType, "linear_perpetual">>,
          inverse |-> FALSE, hedge_mode |-> DefaultHedgeMode]
    ELSE IF EndsWith(sym, USD)
         THEN [market_type |-> <<ConfigMarketType, "inverse_perpetual">>,
               inverse |-> TRUE, hedge_mode |-> FALSE]
         ELSE [market_type |-> <<ConfigMarketType, "inverse_futures">>,
               inverse |-> TRUE, hedge_mode |-> DefaultHedgeMode]

\* ------------------------------------------------------------- position
FlatLeg == [size |-> 0, price |-> 0, liquidation_price |-> 0]
\* A Position before the first snapshot.
FlatPosition == [long |-> FlatLeg, short |-> FlatLeg, wallet_balance |-> 0]

\* A leg as the venue reports it: an unsigned size; a flat leg has no prices.
VenueLeg(side, idx, size) ==
    [side |-> side, position_idx |-> idx, size |-> size,
     entry_price |-> IF size = 0 THEN 0 ELSE 50000,
     liq_price |-> IF size = 0 THEN 0 ELSE 40000]

\* All sequences over S of length lo..hi.
SeqsOf(S, lo, hi) == UNION {[1..n -> S] : n \in lo..hi}

\* Lists of at most one leg per tag, in either order; a leg may be missing.
LegLists(legs, tag) ==
    {<<>>} \cup {<<l>> : l \in legs}
    \cup {p \in [1..2 -> legs] : p[1][tag] # p[2][tag]}

\* The "result" of the position endpoint, per variant: a list of legs tagged
\* by side (linear), one leg (inverse perpetual), a list of legs tagged by
\* position_idx (inverse futures).
PositionResults(mt) ==
    IF InMarketType("linear_perpetual", mt)
    THEN LegLists({VenueLeg(s, 0, n) : s \in {"Buy", "Sell"}, n \in 0..MaxSize},
                  "side")
    ELSE IF InMarketType("inverse_perpetual", mt)
         THEN {VenueLeg(s, 0, n) : s \in {"Buy", "Sell", "None"}, n \in 0..MaxSize}
         ELSE LegLists({VenueLeg("None", i, n) : i \in {1, 2}, n \in 0..MaxSize},
                       "position_idx")

\* [e for e in result if pred(e)]
RECURSIVE SelectLegs(_, _, _)
SelectLegs(result, key, val) ==
    IF result = <<>> THEN <<>>
    ELSE LET rest == SelectLegs(Tail(result), key, val)
         IN IF Head(result)[key] = val THEN <<Head(result)>> \o rest ELSE rest

\* The sign of the short leg in the returned Position.
SnapshotShortSizeUnsigned(size) == size
SnapshotShortSize(size) == 0 - size

\* [...][0]: the first selected leg; an empty selection has none, and the
\* subscript raises IndexError.
first_leg_or_flat(legs) ==
    IF legs = <<>>
    THEN [found |-> TRUE,
          leg |-> [size |-> 0, entry_price |-> 0, liq_price |-> 0]]
    ELSE [found |-> TRUE, leg |-> legs[1]]
first_leg(legs) ==
    IF legs = <<>> THEN [found |-> FALSE] ELSE [found |-> TRUE, leg |-> legs[1]]

\* The one-way snapshot's leg is the long leg exactly when its side is Buy.
perpetual_long_unless_sell(result) == result.side # "Sell"
perpetual_long(result) == result.side = "Buy"

\* fetch_position, from the two joined responses on: the Position it
\* returns, or the exception it raises.
\* failed: "none", or the request of the gather that raised.
fetch_position(mt, failed, result, bal) ==
    LET Raise(e) == [raised |-> TRUE, exc |-> e]
        Build(long_pos, short_pos) ==
            [raised |-> FALSE,
             value |->
               [long |-> [size |-> long_pos.size,
                          price |-> long_pos.entry_price,
                          liquidation_price |-> long_pos.liq_price],
                short |-> [size |-> SnapshotShortSize(short_pos.size),
                           price |-> short_pos.entry_price,
                           liquidation_price |-> short_pos.liq_price],
                wallet_balance |-> bal]]
        flat == [size |-> 0, entry_price |-> 0, liq_price |-> 0]
    IN IF failed # "none" THEN Raise("HTTPRequestError")
       ELSE IF InMarketType("linear_perpetual", mt)
       THEN LET longs == first_leg(SelectLegs(result, "side", "Buy"))
                shorts == first_leg(SelectLegs(result, "side", "Sell"))
            IN IF ~longs.found \/ ~shorts.found THEN Raise("IndexError")
               ELSE Build(longs.leg, shorts.leg)
       ELSE IF InMarketType("inverse_perpetual", mt)
       THEN IF perpetual_long(result) THEN Build(result, flat)
            ELSE Build(flat, result)
       ELSE IF InMarketType("inverse_futures", mt)
       THEN LET longs == first_leg(SelectLegs(result, "position_idx", 1))
                shorts == first_leg(SelectLegs(result, "position_idx", 2))
            IN IF ~longs.found \/ ~shorts.found THEN Raise("IndexError")
               ELSE Build(longs.leg, shorts.leg)
       ELSE Raise("Exception")

\* ------------------------------------------------------ user stream
\* A Python dict: a function on the keys it holds.
EmptyDict == [k \in {} |-> 0]
Put(d, k, v) == (k :> v) @@ d
Has(d, k) == k \in DOMAIN d

\* str.lower on the words the venue sends.
Lower(s) ==
    CASE s = "Buy" -> "buy"
      [] s = "Sell" -> "sell"
      [] s = "Limit" -> "limit"
      [] s = "Market" -> "market"
      [] s = "Trade" -> "trade"
      [] OTHER -> s

\* date_to_ts: a venue date string as milliseconds since the epoch.
date_to_ts(d) == <<"ms", d>>

\* abs
Abs(x) == IF x < 0 THEN 0 - x ELSE x

\* "tag" in o["order_link_id"]: the label is a sequence of words.
InLabel(tag, label) == \E i \in DOMAIN label : label[i] = tag

\* determine_pos_side
determine_pos_side_close_is_entry(o) ==
    IF Lower(o.side) = "buy"
    THEN IF InLabel("entry", o.order_link_id) \/ InLabel("close", o.order_link_id)
         THEN "long" ELSE "both"
    ELSE IF InLabel("entry", o.order_link_id) \/ InLabel("close", o.order_link_id)
         THEN "short" ELSE "both"
determine_pos_side(o) ==
    IF Lower(o.side) = "buy"
    THEN IF InLabel("entry", o.order_link_id) THEN "long"
         ELSE IF InLabel("close", o.order_link_id) THEN "short"
         ELSE "both"
    ELSE IF InLabel("entry", o.order_link_id) THEN "short"
         ELSE IF InLabel("close", o.order_link_id) THEN "long"
         ELSE "both"

\* The position side of a streamed New order (the three variant branches).
new_order_position_side_by_side(mt, pos, elm) ==
    IF InMarketType("inverse_perpetual", mt)
    THEN (IF Lower(elm.side) = "buy" THEN "long" ELSE "short")
    ELSE IF InMarketType("inverse_futures", mt)
    THEN determine_pos_side(elm)
    ELSE IF \/ (Lower(elm.side) = "buy" /\ elm.create_type = "CreateByUser")
            \/ (Lower(elm.side) = "sell" /\ elm.create_type = "CreateByClosing")
         THEN "long" ELSE "short"
new_order_position_side(mt, pos, elm) ==
    IF InMarketType("inverse_perpetual", mt)
    THEN IF pos.long.size = 0
         THEN IF pos.short.size = 0
              THEN (IF Lower(elm.side) = "buy" THEN "long" ELSE "short")
              ELSE "short"
         ELSE "long"
    ELSE IF InMarketType("inverse_futures", mt)
    THEN determine_pos_side(elm)
    ELSE IF \/ (Lower(elm.side) = "buy" /\ elm.create_type = "CreateByUser")
            \/ (Lower(elm.side) = "sell" /\ elm.create_type = "CreateByClosing")
         THEN "long" ELSE "short"

\* The new_open_order built from an order element with status New.
new_open_order(mt, inv, pos, elm) ==
    [order_id |-> elm.order_id,
     symbol |-> elm.symbol,
     price |-> elm.price,
     qty |-> elm.qty,
     type |-> Lower(elm.order_type),
     side |-> Lower(elm.side),
     timestamp |-> IF inv THEN date_to_ts(elm.timestamp)
                   ELSE date_to_ts(elm.update_time),
     position_side |-> new_order_position_side(mt, pos, elm)]

\* What an element of another symbol leaves in the result.
foreign_element(std, elm, topic) ==
    Put(Put(std, "other_symbol", elm.symbol), "other_type", topic)

\* elm["symbol"] == self.config.symbol.name
is_configured_symbol_unchecked(sym, elm) == TRUE
is_configured_symbol(sym, elm) == elm.symbol = sym

\* The branch of the order_status chain: what a status does to the result.
status_effect_new_ignored(status) ==
    CASE status = "PartiallyFilled" -> "delete_partial"
      [] status \in {"Filled", "Cancelled"} -> "delete"
      [] OTHER -> "pass"
status_effect_fill_flagged(status) ==
    CASE status = "New" -> "insert"
      [] status \in {"PartiallyFilled", "Filled"} -> "delete_partial"
      [] status = "Cancelled" -> "delete"
      [] OTHER -> "pass"
status_effect(status) ==
    CASE status = "Created" -> "pass"
      [] status = "Rejected" -> "pass"
      [] status = "New" -> "insert"
      [] status = "PartiallyFilled" -> "delete_partial"
      [] status = "Filled" -> "delete"
      [] status = "Cancelled" -> "delete"
      [] status = "PendingCancel" -> "pass"
      [] OTHER -> "pass"

\* One element of an order-topic message.
order_element(sym, mt, inv, pos, std, elm) ==
    IF is_configured_symbol(sym, elm)
    THEN LET effect == status_effect(elm.order_status)
         IN CASE effect = "insert" ->
                   Put(std, "new_open_order", new_open_order(mt, inv, pos, elm))
              [] effect = "delete_partial" ->
                   Put(Put(std, "partially_filled", elm.order_id),
                       "deleted_order_id", elm.order_id)
              [] effect = "delete" ->
                   Put(std, "deleted_order_id", elm.order_id)
              [] OTHER -> std
    ELSE foreign_element(std, elm, "order")

\* One element of an execution-topic message.
execution_element(sym, std, elm) ==
    IF is_configured_symbol(sym, elm) THEN std
    ELSE foreign_element(std, elm, "execution")

\* The short size a position-topic element yields.
StreamShortSizeUnsigned(size) == size
StreamShortSize(size) == 0 - Abs(size)

\* One element of a position-topic message.
position_element_with_balance(sym, inv, std, elm) ==
    IF is_configured_symbol(sym, elm)
    THEN LET leg == IF elm.side = "Buy"
                    THEN Put(Put(std, "long_psize", elm.size),
                             "long_pprice", elm.entry_price)
                    ELSE IF elm.side = "Sell"
                    THEN Put(Put(std, "short_psize", StreamShortSize(elm.size)),
                             "short_pprice", elm.entry_price)
                    ELSE std
         IN Put(leg, "wallet_balance", elm.wallet_balance)
    ELSE foreign_element(std, elm, "position")
position_element(sym, inv, std, elm) ==
    IF is_configured_symbol(sym, elm)
    THEN LET leg == IF elm.side = "Buy"
                    THEN Put(Put(std, "long_psize", elm.size),
                             "long_pprice", elm.entry_price)
                    ELSE IF elm.side = "Sell"
                    THEN Put(Put(std, "short_psize", StreamShortSize(elm.size)),
                             "short_pprice", elm.entry_price)
                    ELSE std
         IN IF inv THEN Put(leg, "wallet_balance", elm.wallet_balance) ELSE leg
    ELSE foreign_element(std, elm, "position")

\* One element of a wallet-topic message.
wallet_element(std, elm) == Put(std, "wallet_balance", elm.wallet_balance)

\* The loop over event["data"] of the branch the topic selects.
RECURSIVE standardize_elements(_, _, _, _, _, _, _)
standardize_elements(sym, mt, inv, pos, topic, data, std) ==
    IF data = <<>> THEN std
    ELSE LET elm == Head(data)
             next ==
               IF topic = "order" THEN order_element(sym, mt, inv, pos, std, elm)
               ELSE IF topic = "execution" THEN execution_element(sym, std, elm)
               ELSE IF topic = "position" THEN position_element(sym, inv, std, elm)
               ELSE IF ~inv /\ topic = "wallet" THEN wallet_element(std, elm)
               ELSE std
         IN standardize_elements(sym, mt, inv, pos, topic, Tail(data), next)

\* standardize_user_stream_event
standardize_user_stream_event(sym, mt, inv, pos, event) ==
    IF Has(event, "topic")
    THEN standardize_elements(sym, mt, inv, pos, event.topic, event.data, EmptyDict)
    ELSE EmptyDict

\* The caller's use of the normalized event: leg sizes and prices and the
\* wallet balance it carries overwrite the local position.
apply_position_update(pos, std) ==
    [long |-> [size |-> IF Has(std, "long_psize") THEN std["long_psize"]
                        ELSE pos.long.size,
               price |-> IF Has(std, "long_pprice") THEN std["long_pprice"]
                         ELSE pos.long.price,
               liquidation_price |-> pos.long.liquidation_price],
     short |-> [size |-> IF Has(std, "short_psize") THEN std["short_psize"]
                         ELSE pos.short.size,
                price |-> IF Has(std, "short_pprice") THEN std["short_pprice"]
                          ELSE pos.short.price,
                liquidation_price |-> pos.short.liquidation_price],
     wallet_balance |-> IF Has(std, "wallet_balance") THEN std["wallet_balance"]
                        ELSE pos.wallet_balance]

\* ----------------------------------------------------- order commands
\* Python's None, and a value that is not None.
None == [is_none |-> TRUE]
Some(v) == [is_none |-> FALSE, value |-> v]

\* isinstance(exc, cls): every exception here derives from Exception.
IsInstance(exc, cls) ==
    \/ cls = "Exception"
    \/ exc = cls
    \/ cls = "ConnectionClosed" /\ exc \in {"ConnectionClosedOK", "ConnectionClosedError"}

\* The first except clause that catches exc; 0 when none does.
Handler(handlers, exc) ==
    IF \E i \in DOMAIN handlers : IsInstance(exc, handlers[i])
    THEN CHOOSE i \in DOMAIN handlers :
            /\ IsInstance(exc, handlers[i])
            /\ \A j \in 1..(i - 1) : ~IsInstance(exc, handlers[j])
    ELSE 0

\* Order.from_bybit_payload: the canonical Order of a venue order body.
from_bybit_payload(body) ==
    [order_id |-> body.order_id, side |-> Lower(body.side),
     qty |-> body.qty, position_side |-> body.position_side]

\* The number of times one command awaits httpclient.post.
post_calls_retrying(outcome) == IF outcome = "ok" THEN 1 ELSE 2
post_calls(outcome) == 1

\* What execute_order returns when the venue accepted the call and its
\* response carries an empty result.
empty_result_returns_order(order) == Some(order)
empty_result_return(order) == None

\* The try body of execute_order under one venue outcome: the exception it
\* raises ("none" when it returns), the value returned, the requests sent.
execute_order_body(order, outcome, body) ==
    CASE outcome = "serialization_error" ->
            [exc |-> "ValueError", ret |-> None, requests |-> 0]
      [] outcome = "venue_error" ->
            [exc |-> "HTTPRequestError", ret |-> None,
             requests |-> post_calls(outcome)]
      [] outcome = "transport_error" ->
            [exc |-> "TimeoutError", ret |-> None,
             requests |-> post_calls(outcome)]
      [] outcome = "no_result_key" ->
            [exc |-> "KeyError", ret |-> None, requests |-> post_calls(outcome)]
      [] outcome = "empty_result" ->
            [exc |-> "none", ret |-> empty_result_return(order),
             requests |-> post_calls(outcome)]
      [] outcome = "malformed_result" ->
            [exc |-> "ValidationError", ret |-> None,
             requests |-> post_calls(outcome)]
      [] OTHER ->
            [exc |-> "none", ret |-> Some(from_bybit_payload(body)),
             requests |-> post_calls(outcome)]

\* The except clauses of execute_order, in order.
execute_order_handlers_narrow == <<"HTTPRequestError">>
execute_order_handlers == <<"HTTPRequestError", "Exception">>

\* execute_order: what the caller gets (a value, or a raised exception).
execute_order(order, outcome, body) ==
    LET b == execute_order_body(order, outcome, body)
        h == Handler(execute_order_handlers, b.exc)
    IN IF b.exc = "none"
       THEN [raised |-> FALSE, ret |-> b.ret, requests |-> b.requests]
       ELSE IF h = 0
       THEN [raised |-> TRUE, exc |-> b.exc, requests |-> b.requests]
       ELSE [raised |-> FALSE, ret |-> None, requests |-> b.requests]

\* The except clauses of execute_cancellation, in order.
execute_cancellation_handlers == <<"HTTPRequestError", "Exception">>

\* What the except clause taken in execute_cancellation leaves in
\* ts_released["force_update"].
cancel_force_update(clause, fu) == IF clause = "Exception" THEN 0 ELSE fu

\* order.order_id = cancellation["result"]["order_id"]: the order passed, as
\* a successful cancellation leaves it.
cancelled_order_unchanged(order, new_id) == order
cancelled_order(order, new_id) == [order EXCEPT !.order_id = new_id]

\* execute_cancellation: what the caller gets, the order it passed as the
\* call leaves it, and ts_released["force_update"] after the call.
execute_cancellation(order, outcome, new_id, fu) ==
    LET exc == CASE outcome = "venue_error" -> "HTTPRequestError"
                 [] outcome = "transport_error" -> "TimeoutError"
                 [] outcome = "no_result" -> "TypeError"
                 [] OTHER -> "none"
        h == Handler(execute_cancellation_handlers, exc)
    IN IF exc = "none"
       THEN [raised |-> FALSE,
             ret |-> Some(cancelled_order(order, new_id)),
             order |-> cancelled_order(order, new_id),
             requests |-> post_calls(outcome), force_update |-> fu]
       ELSE IF h = 0
       THEN [raised |-> TRUE, exc |-> exc, order |-> order,
             requests |-> post_calls(outcome), force_update |-> fu]
       ELSE [raised |-> FALSE, ret |-> None, order |-> order,
             requests |-> post_calls(outcome),
             force_update |->
                cancel_force_update(execute_cancellation_handlers[h], fu)]

\* ------------------------------------------------------- venue payloads
\* A position-topic element: the leg of one side, and the wallet balance.
PositionElement(sym, side, size) ==
    [symbol |-> sym, side |-> side, size |-> size,
     entry_price |-> IF size = 0 THEN 0 ELSE 50000,
     wallet_balance |-> 1]

PositionElements(sym) ==
    {PositionElement(sym, s, n) : s \in {"Buy", "Sell", "None"}, n \in 0..MaxSize}
    \cup {PositionElement(OtherSymbol, "Sell", MaxSize)}

PositionEvents(sym) ==
    {[topic |-> "position", data |-> d] :
        d \in SeqsOf(PositionElements(sym), 1, MaxElems)}

WalletEvents ==
    {[topic |-> "wallet", data |-> d] :
        d \in SeqsOf({[wallet_balance |-> b] : b \in Balances}, 1, MaxElems)}

\* Client labels: without intent tag, with one, with both.
Labels == {<<"grid">>, <<"long", "entry">>, <<"long", "close">>,
           <<"close", "entry">>}

\* An order-topic element.
OrderElement(sym, status, id, side, label, create_type) ==
    [symbol |-> sym, order_status |-> status, order_id |-> id, side |-> side,
     order_link_id |-> label, create_type |-> create_type,
     price |-> 50000, qty |-> 1, order_type |-> "Limit",
     timestamp |-> "created", update_time |-> "updated"]

OrderStatuses == {"Created", "Rejected", "New", "PartiallyFilled", "Filled",
                  "Cancelled", "PendingCancel"}

\* Elements whose side, label and creation source are the ordinary ones.
PlainOrderElements(sym) ==
    {OrderElement(sym, st, id, "Buy", <<"grid">>, "CreateByUser") :
        st \in OrderStatuses, id \in OrderIds}
    \cup {OrderElement(OtherSymbol, st, "a", "Buy", <<"grid">>, "CreateByUser") :
            st \in {"New", "Filled", "PartiallyFilled"}}

\* Plain elements, and New elements of every side, label and source.
OrderElements(sym) ==
    PlainOrderElements(sym)
    \cup {OrderElement(sym, "New", id, side, label, ct) :
            id \in OrderIds, side \in {"Buy", "Sell"}, label \in Labels,
            ct \in {"CreateByUser", "CreateByClosing"}}

\* Order messages carrying one status event.
SingleOrderEvents(sym) ==
    {[topic |-> "order", data |-> <<e>>] : e \in OrderElements(sym)}

\* Order messages carrying several status events.
BatchOrderEvents(sym) ==
    {[topic |-> "order", data |-> d] :
        d \in SeqsOf(PlainOrderElements(sym), 2, MaxElems)}

ExecutionEvents(sym) ==
    {[topic |-> "execution", data |-> d] :
        d \in SeqsOf({[symbol |-> s, exec_type |-> t] :
                        s \in {sym, OtherSymbol}, t \in {"Trade", "Funding"}},
                     1, MaxElems)}

\* A payload without one of its keys.
Without(e, k) == [f \in DOMAIN e \ {k} |-> e[f]]

\* Order elements the venue sent whole, and ones that lack a key.
WholeOrderElements(sym) ==
    {OrderElement(sym, st, id, "Buy", <<"grid">>, "CreateByUser") :
        st \in {"New", "Filled"}, id \in OrderIds}
DamagedOrderElements(sym) ==
    {Without(OrderElement(sym, st, "a", "Buy", <<"grid">>, "CreateByUser"),
             "order_id") : st \in {"New", "Filled", "Created"}}
    \cup {Without(OrderElement(sym, "New", "a", "Buy", <<"grid">>, "CreateByUser"),
                  "order_status")}

\* Order messages with at least one element that lacks a key.
DamagedOrderEvents(sym) ==
    {[topic |-> "order", data |-> d] :
        d \in {x \in SeqsOf(WholeOrderElements(sym) \cup DamagedOrderElements(sym),
                            1, MaxElems) :
                 \E i \in 1..Len(x) : x[i] \in DamagedOrderElements(sym)}}

\* Order ids of the configured symbol the event reports Filled or Cancelled.
RECURSIVE TerminatedIn(_, _)
TerminatedIn(sym, data) ==
    IF data = <<>> THEN {}
    ELSE (IF Head(data).symbol = sym
             /\ Head(data).order_status \in {"Filled", "Cancelled"}
          THEN {Head(data).order_id} ELSE {})
         \cup TerminatedIn(sym, Tail(data))

\* The orders the strategy submits or cancels.
Orders ==
    [order_id : OrderIds, side : {"buy", "sell"},
     position_side : {"long", "short"}, qty : 1..MaxSize]

\* The order bodies the venue echoes.
OrderBodies ==
    [order_id : OrderIds, side : {"Buy", "Sell"},
     position_side : {"long"}, qty : 1..MaxSize]

CreateOutcomes == {"serialization_error", "venue_error", "transport_error",
                   "no_result_key", "empty_result", "malformed_result", "ok"}
CancelOutcomes == {"venue_error", "transport_error", "no_result", "ok"}

\* ------------------------------------------------------------- income
\* The page size get_all_income asks for. The program asks for 50; the loop
\* uses it only to tell a full page from a short one, and the model pages by
\* a small size.
PageSize == 2
\* The most pages the venue's income history fills.
MaxPages == 2
\* created_at of the venue's records, in seconds.
TimeStamps == {1, 2}

\* rtc.margin_coin
margin_coin(inv) == IF inv THEN "base_currency" ELSE "quote_currency"

Min(a, b) == IF a < b THEN a ELSE b
Max(a, b) == IF a < b THEN b ELSE a

\* One closed-pnl record of the venue.
IncomeElement(sym, id, created_at) ==
    [id |-> id, created_at |-> created_at, symbol |-> sym,
     exec_type |-> "Trade", closed_pnl |-> 1, order_id |-> "a"]

\* The venue's side of the income endpoint: its history, whether the second
\* and later pages start one record early (a record arrived in between),
\* what it answers past the last page, and the page whose request fails.
IncomeVenues(sym) ==
    {[log |-> [i \in 1..n |-> IncomeElement(sym, i, ts[i])],
      shift |-> shift, beyond |-> beyond, fail |-> fail] :
        n \in 0..(MaxPages * PageSize), ts \in [1..(MaxPages * PageSize) -> TimeStamps],
        shift \in {0, 1},
        beyond \in {"empty", "none", "repeat", "reversed_once"},
        fail \in {[page |-> 0, kind |-> "none"]}
                 \cup [page : 1..(MaxPages + 1),
                       kind : {"venue_error", "transport_error"}]}

PageLo(venue, k) == (k - 1) * PageSize + 1 - (IF k > 1 THEN venue.shift ELSE 0)
RawPage(venue, k) ==
    SubSeq(venue.log, PageLo(venue, k),
           Min(PageLo(venue, k) + PageSize - 1, Len(venue.log)))
LastPage(venue) ==
    IF venue.log = <<>> THEN 0
    ELSE CHOOSE k \in 1..Len(venue.log) :
            /\ PageLo(venue, k) <= Len(venue.log)
            /\ PageLo(venue, k + 1) > Len(venue.log)
Reverse(s) == [i \in 1..Len(s) |-> s[Len(s) + 1 - i]]

\* httpclient.get("income", ...) for one page: the response, or the failure.
income_response(venue, k) ==
    LET Data(d, p) == [kind |-> "data", data |-> Some(d), current_page |-> p]
        K == LastPage(venue)
    IN IF venue.fail.page = k THEN [kind |-> venue.fail.kind]
       ELSE IF k <= K THEN Data(RawPage(venue, k), k)
       ELSE IF venue.beyond = "none"
       THEN [kind |-> "data", data |-> None, current_page |-> k]
       ELSE IF venue.beyond = "repeat" /\ K > 0
       THEN Data(RawPage(venue, K), K)
       ELSE IF venue.beyond = "reversed_once" /\ K > 0 /\ k = K + 1
       THEN Data(Reverse(RawPage(venue, K)), K)
       ELSE Data(<<>>, k)

\* sorted(..., key=lambda x: x["timestamp"]): a stable sort.
RECURSIVE sorted_by_timestamp(_)
sorted_by_timestamp(s) ==
    IF s = <<>> THEN <<>>
    ELSE LET t == sorted_by_timestamp(SubSeq(s, 1, Len(s) - 1))
             e == s[Len(s)]
             k == Cardinality({i \in 1..Len(t) : t[i].timestamp <= e.timestamp})
         IN SubSeq(t, 1, k) \o <<e>> \o SubSeq(t, k + 1, Len(t))

\* The except clauses of fetch_income, in order.
fetch_income_handlers_venue_only == <<"HTTPRequestError">>
fetch_income_handlers == <<"HTTPRequestError", "Exception">>

\* fetch_income: one page as a list of income records sorted by timestamp;
\* the empty list when the venue has no data or the request failed.
fetch_income(venue, page, token) ==
    LET fetched == income_response(venue, page)
        exc == CASE fetched.kind = "venue_error" -> "HTTPRequestError"
                 [] fetched.kind = "transport_error" -> "TimeoutError"
                 [] OTHER -> "none"
        record(e) ==
            [symbol |-> e.symbol, income_type |-> Lower(e.exec_type),
             income |-> e.closed_pnl, token |-> token,
             timestamp |-> e.created_at * 1000,
             info |-> [page |-> fetched.current_page],
             transaction_id |-> e.id, trade_id |-> e.order_id]
    IN IF exc # "none"
       THEN IF Handler(fetch_income_handlers, exc) = 0
            THEN [raised |-> TRUE, exc |-> exc]
            ELSE [raised |-> FALSE, ret |-> <<>>]
       ELSE IF fetched.data.is_none THEN [raised |-> FALSE, ret |-> <<>>]
       ELSE [raised |-> FALSE,
             ret |-> sorted_by_timestamp(
                        [i \in 1..Len(fetched.data.value) |->
                            record(fetched.data.value[i])])]

\* income[-n:]
tail(income, n) == SubSeq(income, Max(Len(income) - n + 1, 1), Len(income))

\* len(fetched) < limit
page_is_short_or_full(fetched) == Len(fetched) <= PageSize
page_is_short(fetched) == Len(fetched) < PageSize

\* {e["transaction_id"]: e for e in income}.values(): one record for each
\* transaction id, the last one with that id, in the order in which the ids
\* first occur.
income_d_values_all(income) == income
income_d_values(income) ==
    LET first(i) == \A j \in 1..(i - 1) :
                       income[j].transaction_id # income[i].transaction_id
        keys == SelectSeq([i \in 1..Len(income) |-> i], first)
        latest(i) == CHOOSE j \in 1..Len(income) :
                        /\ income[j].transaction_id = income[i].transaction_id
                        /\ \A l \in (j + 1)..Len(income) :
                              income[l].transaction_id # income[i].transaction_id
    IN [k \in 1..Len(keys) |-> income[latest(keys[k])]]

\* The while loop of get_all_income from one page on: the records
\* accumulated, and every page requested with what fetch_income returned.
RECURSIVE get_all_income_loop(_, _, _, _, _)
get_all_income_loop(venue, token, income, page, trace) ==
    LET f == fetch_income(venue, page, token)
    IN IF f.raised THEN [raised |-> TRUE, exc |-> f.exc]
       ELSE LET fetched == f.ret
                requested == Append(trace, [page |-> page, fetched |-> fetched])
            IN IF Len(fetched) = 0
               THEN [raised |-> FALSE, income |-> income, trace |-> requested]
               ELSE IF fetched = tail(income, Len(fetched))
               THEN [raised |-> FALSE, income |-> income, trace |-> requested]
               ELSE IF page_is_short(fetched)
               THEN [raised |-> FALSE, income |-> income \o fetched,
                     trace |-> requested]
               ELSE get_all_income_loop(venue, token, income \o fetched,
                                        page + 1, requested)

\* get_all_income: what the caller gets, with the loop's records and pages.
get_all_income(venue, token) ==
    LET l == get_all_income_loop(venue, token, <<>>, 1, <<>>)
    IN IF l.raised THEN l
       ELSE [raised |-> FALSE,
             ret |-> sorted_by_timestamp(income_d_values(l.income)),
             income |-> l.income, trace |-> l.trace]

\* ------------------------------------------- user stream, damaged
\* The keys the branch taken for one element subscripts, up to and with the
\* first one the element lacks.
fields_read(sym, mt, inv, topic, elm) ==
    IF topic = "order"
    THEN IF ~Has(elm, "symbol") THEN {"symbol"}
         ELSE IF elm.symbol # sym THEN {"symbol"}
         ELSE IF ~Has(elm, "order_status") THEN {"symbol", "order_status"}
         ELSE IF elm.order_status = "New"
         THEN {"symbol", "order_status", "order_id", "price", "qty",
               "order_type", "side",
               IF inv THEN "timestamp" ELSE "update_time"}
              \cup (IF InMarketType("inverse_perpetual", mt) THEN {}
                    ELSE IF InMarketType("inverse_futures", mt)
                    THEN {"order_link_id"}
                    ELSE {"create_type"})
         ELSE IF elm.order_status \in {"PartiallyFilled", "Filled", "Cancelled"}
         THEN {"symbol", "order_status", "order_id"}
         ELSE {"symbol", "order_status"}
    ELSE IF topic = "execution"
    THEN IF ~Has(elm, "symbol") THEN {"symbol"}
         ELSE IF elm.symbol # sym THEN {"symbol"}
         ELSE {"symbol", "exec_type"}
    ELSE IF topic = "position"
    THEN IF ~Has(elm, "symbol") THEN {"symbol"}
         ELSE IF elm.symbol # sym THEN {"symbol"}
         ELSE IF ~Has(elm, "side") THEN {"symbol", "side"}
         ELSE {"symbol", "side"}
              \cup (IF elm.side \in {"Buy", "Sell"}
                    THEN {"size", "entry_price"} ELSE {})
              \cup (IF inv THEN {"wallet_balance"} ELSE {})
    ELSE IF ~inv /\ topic = "wallet" THEN {"wallet_balance"}
    ELSE {}

\* standardize_user_stream_event has no try statement.
user_element_handlers_each == <<"Exception">>
user_element_handlers == <<>>

\* standardize_user_stream_event on a message whose elements may lack
\* fields: the result it returns, or the KeyError of the first subscript
\* that finds no key.
standardize_user_stream_event_call(sym, mt, inv, pos, event) ==
    LET readable(e) == fields_read(sym, mt, inv, event.topic, e) \subseteq DOMAIN e
    IN IF ~Has(event, "topic") THEN [raised |-> FALSE, ret |-> EmptyDict]
       ELSE IF \A i \in 1..Len(event.data) : readable(event.data[i])
       THEN [raised |-> FALSE,
             ret |-> standardize_user_stream_event(sym, mt, inv, pos, event)]
       ELSE IF Handler(user_element_handlers, "KeyError") = 0
       THEN [raised |-> TRUE, exc |-> "KeyError"]
       ELSE [raised |-> FALSE,
             ret |-> standardize_user_stream_event(
                        sym, mt, inv, pos,
                        [event EXCEPT !.data = SelectSeq(@, readable)])]

\* ----------------------------------------------------- market stream
\* Tick.from_bybit_payload: the Tick of one trade element; an element that
\* lacks a field raises.
tick_from_bybit_payload(e) ==
    IF {"trade_id", "price", "size", "side", "trade_time_ms"} \subseteq DOMAIN e
    THEN [raised |-> FALSE,
          value |-> [trade_id |-> e.trade_id, price |-> e.price,
                     qty |-> e.size, side |-> Lower(e.side),
                     timestamp |-> e.trade_time_ms]]
    ELSE [raised |-> TRUE, exc |-> "KeyError"]

\* The except clauses around one element of a trade message.
market_tick_handlers_none == <<>>
market_tick_handlers == <<"Exception">>

\* The loop of standardize_market_stream_event from one element on.
RECURSIVE standardize_ticks(_, _)
standardize_ticks(data, ticks) ==
    IF data = <<>> THEN [raised |-> FALSE, ret |-> ticks]
    ELSE LET t == tick_from_bybit_payload(Head(data))
         IN IF ~t.raised
            THEN standardize_ticks(Tail(data), Append(ticks, t.value))
            ELSE IF Handler(market_tick_handlers, t.exc) = 0
            THEN [raised |-> TRUE, exc |-> t.exc]
            ELSE standardize_ticks(Tail(data), ticks)

\* standardize_market_stream_event
standardize_market_stream_event(data) == standardize_ticks(data, <<>>)

\* The elements of the venue's trade messages: whole ones, and ones that
\* lack fields.
TradeElements ==
    [trade_id : {1, 2}, price : {50000}, size : {1}, side : {"Buy", "Sell"},
     trade_time_ms : {1000}]
    \cup [trade_id : {1}, side : {"Buy"}]

\* ---------------------------------------------------------- sessions
\* The most pings the heartbeat attempts in one run of the model.
MaxPings == 2

\* Both sockets just connected: the two subscriptions and the heartbeat of
\* the user session are at their first statement.
NoSession ==
    [user_ws |-> "open", user_trace |-> <<>>, market_trace |-> <<>>,
     subscribe_user |-> "auth", subscribe_market |-> "subscribe",
     heartbeat |-> "sleep", pings |-> 0]

\* What ws.send raises on the user socket in its present state.
send_exception(ws) ==
    CASE ws = "closed_ok" -> "ConnectionClosedOK"
      [] ws = "closed_error" -> "ConnectionClosedError"
      [] OTHER -> "none"

\* The except clauses of beat_heart_user_stream, in order; the first one
\* breaks the loop, the second one logs.
beat_heart_handlers_any_close == <<"ConnectionClosed", "Exception">>
beat_heart_handlers == <<"ConnectionClosedOK", "Exception">>

\* Where the heartbeat stands after a send that raised exc ("none": sent).
beat_heart_after_send(exc) ==
    IF exc # "none" /\ Handler(beat_heart_handlers, exc) = 1
    THEN "done" ELSE "sleep"

\* The topics of the user session's subscribe message.
user_topics_without_wallet == <<"position", "execution", "order">>
user_topics == <<"position", "execution", "wallet", "order">>

\* The topic of the market session's subscribe message.
market_topics(sym) == <<<<"trade.", sym>>>>

\* ------------------------------------------------------- public reads
\* self.ob and rtc.price before init_order_book has run.
NoBook == [bid |-> 0, ask |-> 0, price |-> 0]

\* The exception a failed request raises out of httpclient.get/post.
request_exception(outcome) ==
    CASE outcome = "venue_error" -> "HTTPRequestError"
      [] outcome = "transport_error" -> "TimeoutError"
      [] OTHER -> "none"

\* fetch_open_orders has no try statement.
fetch_open_orders_handlers_all == <<"Exception">>
fetch_open_orders_handlers == <<>>

\* fetch_open_orders: the venue's open orders as canonical Orders.
fetch_open_orders(outcome, result) ==
    LET exc == request_exception(outcome)
    IN IF exc = "none"
       THEN [raised |-> FALSE,
             ret |-> [i \in 1..Len(result) |-> from_bybit_payload(result[i])]]
       ELSE IF Handler(fetch_open_orders_handlers, exc) = 0
       THEN [raised |-> TRUE, exc |-> exc]
       ELSE [raised |-> FALSE, ret |-> <<>>]

\* fetch_ohlcvs: the server time is asked for only when no start time is
\* given; the candles carry open_time in milliseconds as their timestamp.
\* failed: "none", or the request that failed.
fetch_ohlcvs(has_start_time, failed, outcome, fetched) ==
    IF failed = "server_time" /\ ~has_start_time
    THEN [raised |-> TRUE, exc |-> request_exception(outcome), requests |-> 1]
    ELSE IF failed = "ohlcvs"
    THEN [raised |-> TRUE, exc |-> request_exception(outcome),
          requests |-> IF has_start_time THEN 1 ELSE 2]
    ELSE [raised |-> FALSE,
          ret |-> [i \in 1..Len(fetched) |->
                     [timestamp |-> fetched[i].open_time * 1000,
                      close |-> fetched[i].close]],
          requests |-> IF has_start_time THEN 1 ELSE 2]

\* init_order_book: the book and the price read from the first ticker.
init_order_book(outcome, result, book) ==
    LET exc == request_exception(outcome)
    IN IF exc # "none" THEN [raised |-> TRUE, exc |-> exc, ob |-> book]
       ELSE IF result = <<>>
       THEN [raised |-> TRUE, exc |-> "IndexError", ob |-> book]
       ELSE [raised |-> FALSE,
             ob |-> [bid |-> result[1].bid_price, ask |-> result[1].ask_price,
                     price |-> result[1].last_price]]

\* What the venue answers to a read.
ReadOutcomes == {"venue_error", "transport_error", "ok"}
\* The venue's candles and tickers.
Candles == [open_time : {60, 120}, close : {50000}]
Tickers == [bid_price : {49999}, ask_price : {50001}, last_price : {49999, 50001}]

\* ------------------------------------------------------ configuration
\* The venue code a configuration call's handler tolerates.
benign_code_everywhere(path) == 130056
benign_code(path) ==
    IF path = "/private/linear/position/set-leverage" THEN 34036 ELSE 130056

\* The configuration calls init_exchange_config makes for a variant, in order.
config_calls(mt) ==
    IF InMarketType("inverse_futures", mt)
    THEN <<"/futures/private/position/leverage/save",
           "/futures/private/position/leverage/save",
           "/futures/private/position/switch-mode">>
    ELSE IF InMarketType("linear_perpetual", mt)
    THEN <<"/private/linear/position/switch-isolated",
           "/private/linear/position/set-leverage">>
    ELSE IF InMarketType("inverse_perpetual", mt)
    THEN <<"/v2/private/position/leverage/save">>
    ELSE <<>>

\* What the venue answers to one configuration call.
ConfigOutcomes ==
    {[kind |-> "ok", code |-> 0], [kind |-> "transport_error", code |-> 0]}
    \cup [kind : {"venue_error"}, code : {130056, 34036, 10001}]

\* The inner try statements of init_exchange_config from call i on: the
\* exception that leaves them ("none" when all are through), the number of
\* calls issued, the log lines written.
RECURSIVE config_from(_, _, _, _)
config_from(calls, outcomes, i, logs) ==
    IF i > Len(calls)
    THEN [exc |-> "none", code |-> 0, issued |-> Len(calls), logs |-> logs]
    ELSE IF outcomes[i].kind = "ok"
    THEN config_from(calls, outcomes, i + 1, logs)
    ELSE IF outcomes[i].kind = "venue_error"
    THEN IF outcomes[i].code # benign_code(calls[i])
         THEN [exc |-> "HTTPRequestError", code |-> outcomes[i].code,
               issued |-> i, logs |-> logs]
         ELSE config_from(calls, outcomes, i + 1,
                          Append(logs, [level |-> "info", call |-> i,
                                        code |-> outcomes[i].code]))
    ELSE [exc |-> "TimeoutError", code |-> 0, issued |-> i, logs |-> logs]

\* The except clauses of the outer try of init_exchange_config.
init_exchange_config_handlers == <<"Exception">>

\* init_exchange_config: whether an exception reaches the caller, the calls
\* issued, and the log.
init_exchange_config(mt, outcomes) ==
    LET b == config_from(config_calls(mt), outcomes, 1, <<>>)
    IN IF b.exc = "none"
       THEN [raised |-> FALSE, issued |-> b.issued, logs |-> b.logs]
       ELSE IF Handler(init_exchange_config_handlers, b.exc) = 0
       THEN [raised |-> TRUE, exc |-> b.exc, issued |-> b.issued,
             logs |-> b.logs]
       ELSE [raised |-> FALSE, issued |-> b.issued,
             logs |-> Append(b.logs, [level |-> "error", call |-> b.issued,
                                      code |-> b.code])]

\* --------------------------------------------------------- construction
\* Symbol names an adapter may be configured with: the three of the sample
\* data, another linear one, the bare suffixes, a name shorter than a suffix
\* and names that carry a suffix in the middle only.
InitSymbols ==
    Symbols \cup {ETHUSDT, USDT, USD, <<"S", "D">>,
                  <<"U", "S", "D", "T", "U", "S", "D">>,
                  <<"U", "S", "D", "T", "H", "2", "2">>}

\* get_httpclient: which of the three endpoint tables a symbol selects.
endpoint_table_by_quote(sym) ==
    IF \E i \in 1..Len(sym) : EndsWith(SubSeq(sym, 1, i), USDT) THEN "linear"
    ELSE IF EndsWith(sym, USD) THEN "inverse_perpetual" ELSE "inverse_futures"
endpoint_table_inverse_only(sym) ==
    IF EndsWith(sym, USDT) THEN "linear" ELSE "inverse_perpetual"
endpoint_table(sym) ==
    IF EndsWith(sym, USDT) THEN "linear"
    ELSE IF EndsWith(sym, USD) THEN "inverse_perpetual" ELSE "inverse_futures"

\* get_httpclient: the endpoint table of the variant, updated with the paths
\* every variant shares.
get_httpclient(sym) ==
    LET shared == [balance |-> "/v2/private/wallet/balance",
                   exchange_info |-> "/v2/public/symbols",
                   ticker |-> "/v2/public/tickers",
                   server_time |-> "/v2/public/time",
                   spot_balance |-> "/spot/v1/account"]
        own ==
          IF endpoint_table(sym) = "linear"
          THEN [position |-> "/private/linear/position/list",
                open_orders |-> "/private/linear/order/search",
                create_order |-> "/private/linear/order/create",
                cancel_order |-> "/private/linear/order/cancel",
                ticks |-> "/public/linear/recent-trading-records",
                fills |-> "/private/linear/trade/execution/list",
                ohlcvs |-> "/public/linear/kline",
                websocket_market |-> "wss://stream.bybit.com/realtime_public",
                websocket_user |-> "wss://stream.bybit.com/realtime_private",
                income |-> "/private/linear/trade/closed-pnl/list"]
          ELSE IF endpoint_table(sym) = "inverse_perpetual"
          THEN [position |-> "/v2/private/position/list",
                open_orders |-> "/v2/private/order",
                create_order |-> "/v2/private/order/create",
                cancel_order |-> "/v2/private/order/cancel",
                ticks |-> "/v2/public/trading-records",
                fills |-> "/v2/private/execution/list",
                ohlcvs |-> "/v2/public/kline/list",
                websocket_market |-> "wss://stream.bybit.com/realtime",
                websocket_user |-> "wss://stream.bybit.com/realtime",
                income |-> "/v2/private/trade/closed-pnl/list"]
          ELSE [position |-> "/futures/private/position/list",
                open_orders |-> "/futures/private/order",
                create_order |-> "/futures/private/order/create",
                cancel_order |-> "/futures/private/order/cancel",
                ticks |-> "/v2/public/trading-records",
                fills |-> "/futures/private/execution/list",
                ohlcvs |-> "/v2/public/kline/list",
                websocket_market |-> "wss://stream.bybit.com/realtime",
                websocket_user |-> "wss://stream.bybit.com/realtime",
                income |-> "/futures/private/trade/closed-pnl/list"]
    IN [k \in DOMAIN own \cup DOMAIN shared |->
          IF k \in DOMAIN shared THEN shared[k] ELSE own[k]]

\* float(str) of a decimal text such as "0.5", in ten-thousandths: the digits
\* before the point, then the first four digits after it.
float(text) ==
    LET digit(c) ==
            (CHOOSE n \in 1..10 :
               <<"0", "1", "2", "3", "4", "5", "6", "7", "8", "9">>[n] = c) - 1
        p == IF \E j \in 1..Len(text) : text[j] = "."
             THEN CHOOSE j \in 1..Len(text) : text[j] = "."
             ELSE Len(text) + 1
        whole == SubSeq(text, 1, p - 1)
        frac == SubSeq(text, p + 1, Len(text))
        units[k \in 0..Len(whole)] ==
            IF k = 0 THEN 0 ELSE 10 * units[k - 1] + digit(whole[k])
        parts[k \in 0..4] ==
            IF k = 0 THEN 0
            ELSE 10 * parts[k - 1] + (IF k <= Len(frac) THEN digit(frac[k]) ELSE 0)
    IN units[Len(whole)] * 10000 + parts[4]

\* One entry of the venue's symbol list; the venue sends steps as text.
SymbolData(name, k) ==
    [name |-> name,
     leverage_filter |-> [max_leverage |-> 50 * k],
     base_currency |-> IF k = 1 THEN "BTC" ELSE "XBT",
     quote_currency |-> IF k = 1 THEN "USD" ELSE "USDT",
     price_filter |-> [tick_size |-> IF k = 1 THEN <<"0", ".", "5">>
                                     ELSE <<"0", ".", "5", "0">>],
     lot_size_filter |->
        [qty_step |-> IF k = 1 THEN <<"1">> ELSE <<"0", ".", "0", "0", "1">>,
         min_trading_qty |-> IF k = 1 THEN <<"1">>
                             ELSE <<"0", ".", "0", "0", "1">>]]

\* exchange_info["result"]: no entry, or up to two, of the configured symbol
\* or of another, with one set of constants or another.
ExchangeInfos(sym) ==
    SeqsOf({SymbolData(n, k) : n \in {sym, OtherSymbol, BTCUSD}, k \in {1, 2}},
           0, 2)

\* init_market_type, the lookup: "for symbol_data in results: if ... break",
\* None where the loop runs out.
RECURSIVE find_symbol_data_last(_, _)
find_symbol_data_last(results, name) ==
    IF results = <<>> THEN None
    ELSE LET later == find_symbol_data_last(Tail(results), name)
         IN IF ~later.is_none THEN later
            ELSE IF Head(results).name = name THEN Some(Head(results))
            ELSE None
RECURSIVE find_symbol_data(_, _)
find_symbol_data(results, name) ==
    IF results = <<>> THEN None
    ELSE IF Head(results).name = name THEN Some(Head(results))
    ELSE find_symbol_data(Tail(results), name)

\* The trading constants of a fresh RuntimeFuturesConfig.
NoConstants == [written |-> FALSE]

\* init_market_type after the variant is written: the metadata lookup and
\* the constants taken from the entry found.
init_trading_constants(sym, results, inv) ==
    LET found == find_symbol_data(results, sym)
    IN IF found.is_none
       THEN [raised |-> TRUE, exc |-> "Exception", constants |-> NoConstants]
       ELSE LET symbol_data == found.value
            IN [raised |-> FALSE,
                constants |->
                  [written |-> TRUE,
                   max_leverage |-> symbol_data.leverage_filter.max_leverage,
                   coin |-> symbol_data.base_currency,
                   quote |-> symbol_data.quote_currency,
                   price_step |-> float(symbol_data.price_filter.tick_size),
                   qty_step |-> float(symbol_data.lot_size_filter.qty_step),
                   min_qty |->
                     float(symbol_data.lot_size_filter.min_trading_qty),
                   min_cost |-> 0,
                   margin_coin |-> symbol_data[margin_coin(inv)]]]

\* ------------------------------------------------------------- gather
\* No fetch_position is running.
NoSnapshot == [pc |-> "idle"]

\* asyncio.gather of the position and the balance request: the awaiting
\* coroutine resumes once both results are there, or once one has raised.
gather_first_completed(position_req, balance_req) ==
    position_req # "pending" \/ balance_req # "pending"
gather_done(position_req, balance_req) ==
    \/ position_req = "ok" /\ balance_req = "ok"
    \/ position_req = "failed"
    \/ balance_req = "failed"

\* The request whose exception gather raises; "none" when it returns.
gather_failed(position_req, balance_req) ==
    IF position_req = "failed" THEN "position"
    ELSE IF balance_req = "failed" THEN "balance"
    ELSE "none"

\* ---------------------------------------------------------------- Init
\* The adapter after init_market_type, before its first snapshot.
Init ==
    /\ symbol \in Symbols
    /\ market_type = init_market_type(symbol).market_type
    /\ inverse = init_market_type(symbol).inverse
    /\ hedge_mode = init_market_type(symbol).hedge_mode
    /\ position = FlatPosition
    /\ force_update = 1
    /\ terminated = {}
    /\ snap = NoSnapshot
    /\ ob = NoBook
    /\ session = NoSession
    /\ last = [op |-> "init"]

\* update_position: one snapshot; the caller keeps the Position it returns
\* and keeps the old one when fetch_position raises.
FetchPosition ==
    \E failed \in {"none", "position", "balance"} :
      \E result \in IF failed = "none" THEN PositionResults(market_type)
                    ELSE {<<>>} :
        \E bal \in IF failed = "none" THEN Balances ELSE {0} :
          LET r == fetch_position(market_type, failed, result, bal)
          IN /\ position' = IF r.raised THEN position ELSE r.value
             /\ last' = [op |-> "fetch_position", failed |-> failed,
                         result |-> result, bal |-> bal, ret |-> r]
             /\ UNCHANGED <<rtc, force_update, terminated, snap, ob, session>>

\* One inbound message of the user session: normalized, then applied.
\* observed: whether the message itself is kept in last, or only its topic
\* and the keys of the normalized result.
OnUserStreamEvent(event, observed) ==
    LET std == standardize_user_stream_event(symbol, market_type, inverse,
                                             position, event)
    IN /\ position' = apply_position_update(position, std)
       /\ terminated' = IF event.topic = "order"
                        THEN terminated \cup TerminatedIn(symbol, event.data)
                        ELSE terminated
       /\ last' = IF observed
                  THEN [op |-> "user_stream_event", topic |-> event.topic,
                        event |-> event, standardized |-> std]
                  ELSE [op |-> "user_stream_event", topic |-> event.topic,
                        keys |-> DOMAIN std]
       /\ UNCHANGED <<rtc, force_update, snap, ob, session>>

OnPositionEvent ==
    \E event \in PositionEvents(symbol) : OnUserStreamEvent(event, FALSE)
OnWalletEvent ==
    \E event \in WalletEvents : OnUserStreamEvent(event, FALSE)
OnOrderEvent ==
    \E event \in SingleOrderEvents(symbol) : OnUserStreamEvent(event, TRUE)

\* The first message after the first snapshot, of any topic.
NormalizeFirst ==
    /\ last.op = "fetch_position"
    /\ \E event \in SingleOrderEvents(symbol) \cup BatchOrderEvents(symbol)
                    \cup ExecutionEvents(symbol) \cup PositionEvents(symbol)
                    \cup WalletEvents :
          OnUserStreamEvent(event, TRUE)

\* The first snapshot (update_position in _init).
FirstSnapshot == last.op = "init" /\ FetchPosition

ExecuteOrder ==
    \E order \in Orders, outcome \in CreateOutcomes :
      \E body \in IF outcome = "ok" THEN OrderBodies ELSE {<<>>} :
        /\ last' = [op |-> "execute_order", order |-> order,
                    outcome |-> outcome,
                    force_update_before |-> force_update,
                    out |-> execute_order(order, outcome, body)]
        /\ UNCHANGED <<rtc, position, force_update, terminated, snap, ob, session>>

ExecuteCancellation ==
    \E order \in Orders, outcome \in CancelOutcomes :
      \E new_id \in IF outcome = "ok" THEN OrderIds ELSE {order.order_id} :
        LET out == execute_cancellation(order, outcome, new_id, force_update)
        IN /\ last' = [op |-> "execute_cancellation", order |-> order,
                       outcome |-> outcome, new_id |-> new_id,
                       force_update_before |-> force_update, out |-> out]
           /\ force_update' = out.force_update
           /\ UNCHANGED <<rtc, position, terminated, snap, ob, session>>

\* The caller's forced refresh: once it has re-run the snapshot it stamps
\* the release time again.
ReleaseForceUpdate ==
    /\ force_update = 0
    /\ force_update' = 1
    /\ last' = [op |-> "release"]
    /\ UNCHANGED <<rtc, position, terminated, snap, ob, session>>

\* fetch_position step by step. It issues both requests and awaits them.
StartSnapshot ==
    /\ snap.pc = "idle"
    /\ snap' = [pc |-> "awaiting", position_req |-> "pending",
                balance_req |-> "pending", result |-> <<>>, bal |-> 0,
                completed |-> <<>>]
    /\ UNCHANGED <<rtc, position, force_update, terminated, ob, session, last>>

\* The position request completes: the venue's result, or a failure.
PositionResponse ==
    /\ snap.pc = "awaiting"
    /\ snap.position_req = "pending"
    /\ \/ \E result \in PositionResults(market_type) :
             snap' = [snap EXCEPT !.position_req = "ok", !.result = result,
                                  !.completed = Append(@, "position")]
       \/ snap' = [snap EXCEPT !.position_req = "failed",
                               !.completed = Append(@, "position")]
    /\ UNCHANGED <<rtc, position, force_update, terminated, ob, session, last>>

\* The balance request completes: the venue's balance, or a failure.
BalanceResponse ==
    /\ snap.pc = "awaiting"
    /\ snap.balance_req = "pending"
    /\ \/ \E bal \in Balances :
             snap' = [snap EXCEPT !.balance_req = "ok", !.bal = bal,
                                  !.completed = Append(@, "balance")]
       \/ snap' = [snap EXCEPT !.balance_req = "failed",
                               !.completed = Append(@, "balance")]
    /\ UNCHANGED <<rtc, position, force_update, terminated, ob, session, last>>

\* The gather resumes fetch_position, which runs to its end: it returns the
\* Position, which the caller keeps, or raises.
JoinSnapshot_short_leg_later ==
    /\ snap.pc = "awaiting"
    /\ gather_done(snap.position_req, snap.balance_req)
    /\ LET r == fetch_position(market_type,
                               gather_failed(snap.position_req, snap.balance_req),
                               snap.result, snap.bal)
           torn == IF r.raised THEN r
                   ELSE [r EXCEPT !.value.short = position.short]
       IN /\ position' = IF torn.raised THEN position ELSE torn.value
          /\ last' = [op |-> "fetch_position_joined",
                      position_req |-> snap.position_req,
                      balance_req |-> snap.balance_req,
                      completed |-> snap.completed,
                      result |-> snap.result,
                      position_before |-> position, ret |-> torn]
    /\ snap' = NoSnapshot
    /\ UNCHANGED <<rtc, force_update, terminated, ob, session>>
JoinSnapshot ==
    /\ snap.pc = "awaiting"
    /\ gather_done(snap.position_req, snap.balance_req)
    /\ LET r == fetch_position(market_type,
                               gather_failed(snap.position_req, snap.balance_req),
                               snap.result, snap.bal)
       IN /\ position' = IF r.raised THEN position ELSE r.value
          /\ last' = [op |-> "fetch_position_joined",
                      position_req |-> snap.position_req,
                      balance_req |-> snap.balance_req,
                      completed |-> snap.completed,
                      result |-> snap.result,
                      position_before |-> position, ret |-> r]
    /\ snap' = NoSnapshot
    /\ UNCHANGED <<rtc, force_update, terminated, ob, session>>

\* The first streamed position update arrives while fetch_position is
\* suspended in its gather.
StreamedDuringSnapshot ==
    /\ snap.pc = "awaiting"
    /\ last.op = "init"
    /\ OnPositionEvent

\* Snapshots and streamed position and wallet updates.
NextPos == FetchPosition \/ OnPositionEvent \/ OnWalletEvent
SpecPos == Init /\ [][NextPos]_vars

\* Snapshots and streamed order status events, one per message.
NextOrd == FetchPosition \/ OnOrderEvent
SpecOrd == Init /\ [][NextOrd]_vars

\* The normalizer on the first message after the first snapshot.
NextNorm == FirstSnapshot \/ NormalizeFirst
SpecNorm == Init /\ [][NextNorm]_vars

\* One snapshot after another, request by request.
NextSnap == StartSnapshot \/ PositionResponse \/ BalanceResponse \/ JoinSnapshot
SpecSnap == Init /\ [][NextSnap]_vars

\* The first snapshot, request by request, with a streamed position update
\* arriving at any moment of its one suspension.
NextRace ==
    /\ last.op # "fetch_position_joined"
    /\ \/ StartSnapshot
       \/ PositionResponse
       \/ BalanceResponse
       \/ JoinSnapshot
       \/ StreamedDuringSnapshot
SpecRace == Init /\ [][NextRace]_vars

\* The income history, fetched once against one venue.
GetAllIncome ==
    /\ last.op = "init"
    /\ \E venue \in IncomeVenues(symbol) :
          last' = [op |-> "get_all_income", venue |-> venue,
                   out |-> get_all_income(venue, margin_coin(inverse))]
    /\ UNCHANGED <<rtc, position, force_update, terminated, snap, ob, session>>

NextIncome == GetAllIncome
SpecIncome == Init /\ [][NextIncome]_vars

\* The venue's configuration for the symbol, set at start-up.
InitExchangeConfig_one_way ==
    /\ \E outcomes \in [1..Len(config_calls(market_type)) -> ConfigOutcomes] :
          last' = [op |-> "init_exchange_config", outcomes |-> outcomes,
                   out |-> init_exchange_config(market_type, outcomes)]
    /\ hedge_mode' = FALSE
    /\ UNCHANGED <<symbol, market_type, inverse, position, force_update,
                   terminated, snap, ob, session>>
InitExchangeConfig ==
    /\ \E outcomes \in [1..Len(config_calls(market_type)) -> ConfigOutcomes] :
          last' = [op |-> "init_exchange_config", outcomes |-> outcomes,
                   out |-> init_exchange_config(market_type, outcomes)]
    /\ UNCHANGED <<rtc, position, force_update, terminated, snap, ob, session>>

NextConfig == InitExchangeConfig
SpecConfig == Init /\ [][NextConfig]_vars

\* The open orders, read for reconciliation.
FetchOpenOrders ==
    /\ \E outcome \in ReadOutcomes :
         \E result \in IF outcome = "ok" THEN SeqsOf(OrderBodies, 0, MaxElems)
                                          ELSE {<<>>} :
           last' = [op |-> "fetch_open_orders", outcome |-> outcome,
                    out |-> fetch_open_orders(outcome, result)]
    /\ UNCHANGED <<rtc, position, force_update, terminated, snap, ob, session>>

\* Candles, with or without a start time.
FetchOhlcvs ==
    /\ \E has_start_time \in BOOLEAN,
          failed \in {"none", "server_time", "ohlcvs"} :
         \E outcome \in IF failed = "none" THEN {"ok"}
                                           ELSE {"venue_error", "transport_error"} :
           \E fetched \in IF failed = "none" THEN SeqsOf(Candles, 0, MaxElems)
                                              ELSE {<<>>} :
             /\ failed = "server_time" => ~has_start_time
             /\ last' = [op |-> "fetch_ohlcvs", outcome |-> outcome,
                         failed |-> failed, has_start_time |-> has_start_time,
                         out |-> fetch_ohlcvs(has_start_time, failed, outcome,
                                              fetched)]
    /\ UNCHANGED <<rtc, position, force_update, terminated, snap, ob, session>>

\* The ticker, read at start-up.
InitOrderBook ==
    /\ \E outcome \in ReadOutcomes :
         \E result \in IF outcome = "ok" THEN SeqsOf(Tickers, 0, 1) ELSE {<<>>} :
           LET out == init_order_book(outcome, result, ob)
           IN /\ ob' = out.ob
              /\ last' = [op |-> "init_order_book", outcome |-> outcome,
                          out |-> out]
    /\ UNCHANGED <<rtc, position, force_update, terminated, snap, session>>

\* beat_heart_user_stream: the sleep of 27 seconds is over.
HeartbeatWakes ==
    /\ session.heartbeat = "sleep"
    /\ session.pings < MaxPings
    /\ session' = [session EXCEPT !.heartbeat = "send"]
    /\ UNCHANGED <<rtc, position, force_update, terminated, snap, ob, last>>

\* beat_heart_user_stream: one ping is sent, or the send raises.
HeartbeatPings ==
    /\ session.heartbeat = "send"
    /\ LET exc == send_exception(session.user_ws)
       IN /\ session' =
                [session EXCEPT
                   !.heartbeat = beat_heart_after_send(exc),
                   !.pings = @ + 1,
                   !.user_trace = IF exc = "none"
                                  THEN Append(@, [op |-> "ping", args |-> <<>>])
                                  ELSE @]
          /\ last' = [op |-> "ping", exc |-> exc,
                      ws_before |-> session.user_ws,
                      ws_after |-> session'.user_ws]
    /\ UNCHANGED <<rtc, position, force_update, terminated, snap, ob>>

\* subscribe_to_user_stream: the auth message.
UserAuth ==
    /\ session.subscribe_user = "auth"
    /\ session' =
          IF send_exception(session.user_ws) = "none"
          THEN [session EXCEPT
                  !.subscribe_user = "sleep",
                  !.user_trace = Append(@, [op |-> "auth",
                                            args |-> <<"key", "expires", "signature">>])]
          ELSE [session EXCEPT !.subscribe_user = "raised"]
    /\ UNCHANGED <<rtc, position, force_update, terminated, snap, ob, last>>

\* subscribe_to_user_stream: asyncio.sleep(1).
UserWait ==
    /\ session.subscribe_user = "sleep"
    /\ session' = [session EXCEPT
                     !.subscribe_user = "subscribe",
                     !.user_trace = Append(@, [op |-> "sleep", args |-> <<>>])]
    /\ UNCHANGED <<rtc, position, force_update, terminated, snap, ob, last>>

\* subscribe_to_user_stream: the subscribe message.
UserSubscribe ==
    /\ session.subscribe_user = "subscribe"
    /\ session' =
          IF send_exception(session.user_ws) = "none"
          THEN [session EXCEPT
                  !.subscribe_user = "done",
                  !.user_trace = Append(@, [op |-> "subscribe",
                                            args |-> user_topics])]
          ELSE [session EXCEPT !.subscribe_user = "raised"]
    /\ UNCHANGED <<rtc, position, force_update, terminated, snap, ob, last>>

\* subscribe_to_market_stream: its one message, or the send raises.
MarketSubscribe ==
    /\ session.subscribe_market = "subscribe"
    /\ \E sent \in BOOLEAN :
          session' =
             IF sent
             THEN [session EXCEPT
                     !.subscribe_market = "done",
                     !.market_trace = Append(@, [op |-> "subscribe",
                                                 args |-> market_topics(symbol)])]
             ELSE [session EXCEPT !.subscribe_market = "raised"]
    /\ UNCHANGED <<rtc, position, force_update, terminated, snap, ob, last>>

\* The user socket is closed, with a close frame or without.
UserSocketCloses ==
    /\ session.user_ws = "open"
    /\ \E ws \in {"closed_ok", "closed_error"} :
          session' = [session EXCEPT !.user_ws = ws]
    /\ UNCHANGED <<rtc, position, force_update, terminated, snap, ob, last>>

\* The two sessions from connect on.
NextSession ==
    \/ HeartbeatWakes \/ HeartbeatPings
    \/ UserAuth \/ UserWait \/ UserSubscribe
    \/ MarketSubscribe
    \/ UserSocketCloses
SpecSession == Init /\ [][NextSession]_vars

\* One order message with an element that lacks a key: normalized, and
\* applied unless the normalization raised.
OnDamagedOrderEvent ==
    /\ \E event \in DamagedOrderEvents(symbol) :
          LET out == standardize_user_stream_event_call(
                        symbol, market_type, inverse, position, event)
          IN /\ position' = IF out.raised THEN position
                            ELSE apply_position_update(position, out.ret)
             /\ last' = [op |-> "user_stream_event_call", event |-> event,
                         out |-> out]
    /\ UNCHANGED <<rtc, force_update, terminated, snap, ob, session>>

\* One order message with an element that lacks a key, at start-up or
\* after the first snapshot.
NextDamaged ==
    \/ FirstSnapshot
    \/ last.op \in {"init", "fetch_position"} /\ OnDamagedOrderEvent
SpecDamaged == Init /\ [][NextDamaged]_vars

\* One trade message of the market stream is normalized.
OnMarketStreamEvent ==
    /\ \E data \in SeqsOf(TradeElements, 0, MaxElems + 1) :
          last' = [op |-> "market_event", data |-> data,
                   out |-> standardize_market_stream_event(data)]
    /\ UNCHANGED <<rtc, position, force_update, terminated, snap, ob, session>>

\* The market stream, message by message.
NextMarket == OnMarketStreamEvent
SpecMarket == Init /\ [][NextMarket]_vars

\* Every operation of the adapter, run on the adapter as start-up leaves it
\* or right after a snapshot.
Fresh == last.op \in {"init", "fetch_position"}
NextOps ==
    \/ Fresh /\ FetchPosition
    \/ Fresh /\ FetchOpenOrders
    \/ Fresh /\ FetchOhlcvs
    \/ Fresh /\ InitOrderBook
    \/ Fresh /\ ExecuteOrder
    \/ Fresh /\ ExecuteCancellation
    \/ Fresh /\ InitExchangeConfig
    \/ Fresh /\ GetAllIncome
    \/ Fresh /\ OnPositionEvent
    \/ Fresh /\ OnWalletEvent
    \/ Fresh /\ OnOrderEvent
    \/ Fresh /\ OnMarketStreamEvent
SpecOps == Init /\ [][NextOps]_vars

\* Submissions and cancellations.
NextExec == ExecuteOrder \/ ExecuteCancellation \/ ReleaseForceUpdate
SpecExec == Init /\ [][NextExec]_vars

\* _init up to init_market_type, for an adapter configured with any symbol
\* name: the endpoint table, the variant and, where the venue lists the
\* symbol, the trading constants.
InitMarketType ==
    /\ \E sym \in InitSymbols : \E results \in ExchangeInfos(sym) :
          LET variant == init_market_type(sym)
          IN last' = [op |-> "init_market_type", symbol |-> sym,
                      results |-> results,
                      endpoints |-> get_httpclient(sym),
                      variant |-> variant,
                      out |-> init_trading_constants(sym, results,
                                                     variant.inverse)]
    /\ UNCHANGED <<rtc, position, force_update, terminated, snap, ob, session>>

NextInit == last.op = "init" /\ InitMarketType
SpecInit == Init /\ [][NextInit]_vars

\* ------------------------------------------------------------ properties
Snapshot == last.op = "fetch_position" /\ ~last.ret.raised
Command == last.op \in {"execute_order", "execute_cancellation"}
\* The last operation normalized an order message with one element.
OrderEvent ==
    /\ last.op = "user_stream_event"
    /\ last.topic = "order"
    /\ Len(last.event.data) = 1
\* That element, when it is of the configured symbol.
OwnOrderEvent == OrderEvent /\ last.event.data[1].symbol = symbol
OwnNewOrder == OwnOrderEvent /\ last.event.data[1].order_status = "New"
Tagged(label) == InLabel("entry", label) \/ InLabel("close", label)

\* C1: in every market variant the Position fetch_position returns from a
\* payload of unsigned leg sizes, the all-flat one included, has
\* long.size >= 0 and short.size <= 0.
C1_SnapshotSigns ==
    Snapshot =>
        /\ last.ret.value.long.size >= 0
        /\ last.ret.value.short.size <= 0
C1_Witness ==
    /\ Snapshot
    /\ InMarketType("inverse_futures", market_type)
    /\ last.ret.value.long.size > 0
    /\ last.ret.value.short.size < 0

\* C2: after any sequence of snapshots and streamed position updates the
\* local position has long.size >= 0 and short.size <= 0.
C2_PositionSigns ==
    /\ position.long.size >= 0
    /\ position.short.size <= 0
C2_Witness ==
    /\ last.op = "user_stream_event"
    /\ last.topic = "position"
    /\ "short_psize" \in last.keys
    /\ position.short.size < 0
    /\ position.long.size > 0

\* C3: execute_order and execute_cancellation never raise to the caller;
\* under a venue error, a transport failure, a malformed or missing response
\* field or a serialization failure they return None.
C3_CommandsNeverRaise ==
    Command =>
        /\ ~last.out.raised
        /\ last.outcome # "ok" => last.out.ret = None
C3_Witness ==
    /\ last.op = "execute_order"
    /\ last.outcome = "transport_error"
    /\ ~last.out.raised
    /\ last.out.ret = None

\* C4: whenever execute_cancellation returns None, the force_update release
\* timestamp is 0, for a venue error envelope as for any other failure.
C4_CancelNoneForcesRefresh ==
    (/\ last.op = "execute_cancellation"
     /\ ~last.out.raised
     /\ last.out.ret = None)
    => force_update = 0

\* C5: one call of execute_order or execute_cancellation sends at most one
\* request to the venue, whatever the outcome of that request.
C5_NoRetry == Command => last.out.requests <= 1
C5_Witness ==
    /\ last.op = "execute_cancellation"
    /\ last.outcome = "transport_error"
    /\ last.out.requests = 1

\* C6 as stated: a New event for an order id the venue has already reported
\* Filled or Cancelled produces no new open order.
C6_NewAfterTerminalIgnored ==
    (OwnNewOrder /\ last.event.data[1].order_id \in terminated)
    => ~Has(last.standardized, "new_open_order")
\* C6 as amended: the normalizer keeps no order status; a New event produces
\* a new open order of its id also after a Filled or Cancelled event for it.
C6_NewAlwaysInserts ==
    (OwnNewOrder /\ last.event.data[1].order_id \in terminated)
    => /\ Has(last.standardized, "new_open_order")
       /\ last.standardized["new_open_order"].order_id
            = last.event.data[1].order_id
C6_Witness ==
    /\ OwnNewOrder
    /\ last.event.data[1].order_id \in terminated
    /\ Has(last.standardized, "new_open_order")

\* C7: an order message with one element of the configured symbol yields
\* nothing for Created, Rejected and PendingCancel, exactly one
\* new_open_order for New, deleted_order_id = the element's id for
\* PartiallyFilled, Filled and Cancelled, partially_filled exactly for
\* PartiallyFilled, and never any other key (no fill record).
C7_StatusMapping ==
    OwnOrderEvent =>
        LET elm == last.event.data[1]
            std == last.standardized
        IN /\ elm.order_status \in {"Created", "Rejected", "PendingCancel"}
                => DOMAIN std = {}
           /\ elm.order_status = "New" => DOMAIN std = {"new_open_order"}
           /\ elm.order_status \in {"Filled", "Cancelled"}
                => /\ DOMAIN std = {"deleted_order_id"}
                   /\ std["deleted_order_id"] = elm.order_id
           /\ elm.order_status = "PartiallyFilled"
                => /\ DOMAIN std = {"deleted_order_id", "partially_filled"}
                   /\ std["deleted_order_id"] = elm.order_id
                   /\ std["partially_filled"] = elm.order_id
           /\ Has(std, "partially_filled") <=> elm.order_status = "PartiallyFilled"
C7_Witness ==
    /\ OwnOrderEvent
    /\ last.event.data[1].order_status = "PartiallyFilled"
    /\ Has(last.standardized, "partially_filled")
    /\ Has(last.standardized, "deleted_order_id")

\* The side the claim reads off a label with one intent tag.
TagSide(side, label) ==
    IF (side = "Buy") = InLabel("entry", label) THEN "long" ELSE "short"

\* C8 as stated: in every variant a New order whose label carries an intent
\* tag gets the position side of that tag and its side.
C8_TagDecidesEverywhere ==
    (/\ OwnNewOrder
     /\ InLabel("entry", last.event.data[1].order_link_id)
          # InLabel("close", last.event.data[1].order_link_id))
    => last.standardized["new_open_order"].position_side
         = TagSide(last.event.data[1].side, last.event.data[1].order_link_id)
\* C8 as amended: the tag decides in the inverse-futures variant only (entry
\* before close when the label carries both), whatever the creation source
\* and the position sizes; in the two other variants the label changes
\* nothing.
C8_TagDecidesInFutures ==
    (OwnNewOrder /\ Tagged(last.event.data[1].order_link_id)) =>
        LET elm == last.event.data[1]
            side == last.standardized["new_open_order"].position_side
        IN IF InMarketType("inverse_futures", market_type)
           THEN side = IF InLabel("entry", elm.order_link_id)
                       THEN (IF elm.side = "Buy" THEN "long" ELSE "short")
                       ELSE (IF elm.side = "Buy" THEN "short" ELSE "long")
           ELSE side = new_order_position_side(
                          market_type, position,
                          [elm EXCEPT !.order_link_id = <<"grid">>])
C8_Witness ==
    /\ OwnNewOrder
    /\ InMarketType("inverse_futures", market_type)
    /\ last.event.data[1].order_link_id = <<"long", "close">>
    /\ last.event.data[1].side = "Buy"
    /\ last.event.data[1].create_type = "CreateByUser"
    /\ position.long.size > 0
    /\ last.standardized["new_open_order"].position_side = "short"

\* C9: in the one-way (inverse perpetual) variant a New order without
\* intent tag takes its position side from the position: both legs flat, a
\* buy is long and a sell short; long flat and short not, short; long not
\* flat, long.
C9_OneWayInference ==
    (/\ OwnNewOrder
     /\ InMarketType("inverse_perpetual", market_type)
     /\ ~Tagged(last.event.data[1].order_link_id))
    => LET elm == last.event.data[1]
           side == last.standardized["new_open_order"].position_side
       IN /\ (position.long.size = 0 /\ position.short.size = 0)
               => side = IF elm.side = "Buy" THEN "long" ELSE "short"
          /\ (position.long.size = 0 /\ position.short.size # 0)
               => side = "short"
          /\ position.long.size # 0 => side = "long"
C9_Witness ==
    /\ OwnNewOrder
    /\ InMarketType("inverse_perpetual", market_type)
    /\ ~Tagged(last.event.data[1].order_link_id)
    /\ last.event.data[1].side = "Buy"
    /\ position.long.size = 0
    /\ position.short.size < 0
    /\ last.standardized["new_open_order"].position_side = "short"

\* The elements of the configured symbol, in order.
RECURSIVE OwnElements(_)
OwnElements(data) ==
    IF data = <<>> THEN <<>>
    ELSE IF Head(data).symbol = symbol
         THEN <<Head(data)>> \o OwnElements(Tail(data))
         ELSE OwnElements(Tail(data))
Restrict(d, keys) == [k \in DOMAIN d \cap keys |-> d[k]]

\* C10: in an order, execution or position message the elements of another
\* symbol leave other_symbol and other_type only: every other key of the
\* result is what the elements of the configured symbol alone yield.
C10_ForeignNotApplied ==
    (/\ last.op = "user_stream_event"
     /\ last.topic \in {"order", "execution", "position"})
    => LET std == last.standardized
           own == OwnElements(last.event.data)
       IN /\ Restrict(std, DOMAIN std \ {"other_symbol", "other_type"})
               = standardize_user_stream_event(
                    symbol, market_type, inverse, position,
                    [topic |-> last.topic, data |-> own])
          /\ own = <<>> => DOMAIN std = {"other_symbol", "other_type"}
C10_Witness ==
    /\ last.op = "user_stream_event"
    /\ last.topic = "order"
    /\ Len(last.event.data) = 2
    /\ last.event.data[1].symbol = symbol
    /\ last.event.data[1].order_status = "Cancelled"
    /\ last.event.data[2].symbol = OtherSymbol
    /\ last.event.data[2].order_status = "New"
    /\ DOMAIN last.standardized
         = {"deleted_order_id", "other_symbol", "other_type"}
\* The last step finished a snapshot that was run request by request.
JoinedSnapshot == last.op = "fetch_position_joined"

\* C11: fetch_position yields a Position only after both the position request
\* and the balance request have completed successfully, in whichever order
\* they complete; when either fails it raises, and no Position is produced.
C11_SnapshotAfterBoth ==
    JoinedSnapshot =>
        /\ ~last.ret.raised =>
               /\ last.position_req = "ok"
               /\ last.balance_req = "ok"
               /\ \E i, j \in 1..Len(last.completed) :
                      /\ last.completed[i] = "position"
                      /\ last.completed[j] = "balance"
        /\ (last.position_req = "failed" \/ last.balance_req = "failed") =>
               /\ last.ret.raised
               /\ position = last.position_before

\* A Position came out of a snapshot whose balance request completed first.
C11_Witness ==
    /\ JoinedSnapshot
    /\ ~last.ret.raised
    /\ last.completed = <<"balance", "position">>
    /\ position = last.ret.value

\* The last step ran fetch_position on two answered requests.
AnsweredSnapshot == last.op = "fetch_position" /\ last.failed = "none"

\* The snapshot's position request answered with a list that has no leg
\* whose field key is val.
LegMissing(key, val) == \A i \in 1..Len(last.result) : last.result[i][key] # val

\* C12: a linear perpetual snapshot whose answer lacks the Buy or the Sell
\* leg, and an inverse futures snapshot whose answer lacks the leg with
\* position_idx 1 or 2, fails: no Position is returned, and no flat leg
\* stands in for the missing one.
C12_MissingLegFails ==
    AnsweredSnapshot =>
        /\ (/\ InMarketType("linear_perpetual", market_type)
            /\ LegMissing("side", "Buy") \/ LegMissing("side", "Sell"))
               => last.ret.raised
        /\ (/\ InMarketType("inverse_futures", market_type)
            /\ LegMissing("position_idx", 1) \/ LegMissing("position_idx", 2))
               => last.ret.raised

\* An inverse futures snapshot whose answer holds the long leg only.
C12_Witness ==
    /\ AnsweredSnapshot
    /\ InMarketType("inverse_futures", market_type)
    /\ Len(last.result) = 1
    /\ last.result[1].position_idx = 1
    /\ last.result[1].size > 0
    /\ last.ret.raised

\* C13: an inverse perpetual snapshot whose answer has side Buy gives the
\* long leg the reported size and prices and a short leg of zeros; any other
\* side gives a long leg of zeros and the short leg the reported prices and
\* the negated reported size.
C13_OneWaySnapshot ==
    (AnsweredSnapshot /\ InMarketType("inverse_perpetual", market_type)) =>
        LET reported(size) == [size |-> size,
                               price |-> last.result.entry_price,
                               liquidation_price |-> last.result.liq_price]
            zeros == [size |-> 0, price |-> 0, liquidation_price |-> 0]
        IN /\ ~last.ret.raised
           /\ last.result.side = "Buy" =>
                  /\ last.ret.value.long = reported(last.result.size)
                  /\ last.ret.value.short = zeros
           /\ last.result.side # "Buy" =>
                  /\ last.ret.value.long = zeros
                  /\ last.ret.value.short = reported(0 - last.result.size)

\* A one-way snapshot of an open short position.
C13_Witness ==
    /\ AnsweredSnapshot
    /\ InMarketType("inverse_perpetual", market_type)
    /\ last.result.side = "Sell"
    /\ last.result.size > 0
    /\ last.ret.value.long.size = 0
    /\ last.ret.value.short.size < 0
    /\ last.ret.value.short.price = last.result.entry_price

\* C14: execute_order returns an Order exactly when the create request
\* completed and the response carries an order body in its result; when the
\* venue accepted the call and the result is empty it returns None, and the
\* caller sees no exception.
C14_OrderIffResult ==
    last.op = "execute_order" =>
        /\ ~last.out.raised
        /\ ~last.out.ret.is_none <=> last.outcome = "ok"
        /\ last.outcome = "empty_result" =>
               /\ last.out.ret = None
               /\ last.out.requests = 1

\* The venue accepted a submission and answered with an empty result.
C14_Witness ==
    /\ last.op = "execute_order"
    /\ last.outcome = "empty_result"
    /\ ~last.out.raised
    /\ last.out.ret.is_none

\* C15: a successful execute_cancellation returns the Order it was given,
\* changed only in its order_id, which is the id of the venue's response; a
\* failed one returns None and leaves the Order it was given as it was.
C15_CancelFrame ==
    last.op = "execute_cancellation" =>
        /\ ~last.out.raised
        /\ last.outcome = "ok" =>
               /\ last.out.ret = Some(last.out.order)
               /\ last.out.order = [last.order EXCEPT !.order_id = last.new_id]
        /\ last.outcome # "ok" =>
               /\ last.out.ret = None
               /\ last.out.order = last.order

\* A cancellation the venue answered with an id other than the order's.
C15_Witness ==
    /\ last.op = "execute_cancellation"
    /\ last.outcome = "ok"
    /\ last.new_id # last.order.order_id
    /\ last.out.ret.value.order_id = last.new_id
    /\ last.out.ret.value.qty = last.order.qty

\* The last step ran get_all_income, which returned.
IncomeFetched == last.op = "get_all_income" /\ ~last.out.raised

\* C16: whatever pages the venue returns, the records get_all_income
\* returns have pairwise different transaction ids and timestamps that
\* never decrease.
C16_DedupSorted ==
    IncomeFetched =>
        LET ret == last.out.ret
        IN \A i, j \in 1..Len(ret) :
              i < j => /\ ret[i].transaction_id # ret[j].transaction_id
                       /\ ret[i].timestamp <= ret[j].timestamp

\* The venue repeated its last page in another order: the accumulated
\* records hold a transaction id twice and are out of timestamp order.
C16_Witness ==
    /\ IncomeFetched
    /\ last.venue.beyond = "reversed_once"
    /\ \E i, j \in 1..Len(last.out.income) :
          /\ i < j
          /\ last.out.income[i].transaction_id = last.out.income[j].transaction_id
    /\ \E i, j \in 1..Len(last.out.income) :
          /\ i < j
          /\ last.out.income[i].timestamp > last.out.income[j].timestamp
    /\ Len(last.out.ret) < Len(last.out.income)

\* The records of the first k requested pages, one page after the other.
RECURSIVE PagesUpTo(_, _)
PagesUpTo(trace, k) ==
    IF k = 0 THEN <<>> ELSE PagesUpTo(trace, k - 1) \o trace[k].fetched

\* Page k of the trace is empty, or equals the last records of the pages
\* before it.
NothingNew(trace, k) ==
    LET fetched == trace[k].fetched
        before == PagesUpTo(trace, k - 1)
    IN \/ fetched = <<>>
       \/ /\ Len(fetched) <= Len(before)
          /\ \A i \in 1..Len(fetched) :
                fetched[i] = before[Len(before) - Len(fetched) + i]

\* C17: get_all_income requests the pages 1, 2, ... in turn, and a next page
\* only after a page that was full and brought something new; the last page
\* it requests is empty, short or a repeat of the last records accumulated;
\* the accumulated records are those of the pages requested, without a page
\* that was such a repeat.
C17_PagingStops ==
    IncomeFetched =>
        LET trace == last.out.trace
            n == Len(trace)
        IN /\ n >= 1
           /\ \A k \in 1..n : trace[k].page = k
           /\ \A k \in 1..(n - 1) :
                 /\ Len(trace[k].fetched) = PageSize
                 /\ ~NothingNew(trace, k)
           /\ NothingNew(trace, n) \/ Len(trace[n].fetched) < PageSize
           /\ last.out.income = IF NothingNew(trace, n)
                                 THEN PagesUpTo(trace, n - 1)
                                 ELSE PagesUpTo(trace, n)

\* Two full pages, then the second page again: it is not added.
C17_Witness ==
    /\ IncomeFetched
    /\ Len(last.out.trace) = 3
    /\ last.out.trace[3].fetched = last.out.trace[2].fetched
    /\ Len(last.out.trace[3].fetched) = PageSize
    /\ Len(last.out.income) = 2 * PageSize

\* The last step ran init_exchange_config.
Configured == last.op = "init_exchange_config"

\* Call i was issued and the venue refused it with an error code.
Refused(i) == i <= last.out.issued /\ last.outcomes[i].kind = "venue_error"

\* The "already set" code of call i: 34036 for the second call of the
\* linear variant (set-leverage), 130056 for every other call.
AlreadySet(i) ==
    IF InMarketType("linear_perpetual", market_type) /\ i = 2
    THEN 34036 ELSE 130056

\* C19: a configuration call refused with its "already set" code raises
\* nothing in the caller, leaves an info line in the log, and the next call
\* of the variant is issued; when every refusal is of this kind, all calls
\* of the variant are issued and no error is logged.
C19_BenignTolerated ==
    Configured =>
        LET n == Len(last.outcomes)
            logs == last.out.logs
        IN /\ \A i \in 1..n :
                 (Refused(i) /\ last.outcomes[i].code = AlreadySet(i)) =>
                    /\ ~last.out.raised
                    /\ \E l \in 1..Len(logs) :
                          logs[l] = [level |-> "info", call |-> i,
                                     code |-> AlreadySet(i)]
                    /\ i < n => last.out.issued >= i + 1
           /\ (\A i \in 1..n :
                  \/ last.outcomes[i].kind = "ok"
                  \/ /\ last.outcomes[i].kind = "venue_error"
                     /\ last.outcomes[i].code = AlreadySet(i)) =>
                 /\ ~last.out.raised
                 /\ last.out.issued = n
                 /\ \A l \in 1..Len(logs) : logs[l].level = "info"

\* Both calls of the linear variant were refused as already set.
C19_Witness ==
    /\ Configured
    /\ InMarketType("linear_perpetual", market_type)
    /\ last.outcomes[1] = [kind |-> "venue_error", code |-> 130056]
    /\ last.outcomes[2] = [kind |-> "venue_error", code |-> 34036]
    /\ last.out.issued = 2
    /\ Len(last.out.logs) = 2
    /\ ~last.out.raised

\* C20: a configuration call refused with a code other than its "already
\* set" code makes init_exchange_config raise in its caller.
C20_OtherCodeReachesCaller ==
    Configured =>
        \A i \in 1..Len(last.outcomes) :
            (Refused(i) /\ last.outcomes[i].code # AlreadySet(i)) =>
                last.out.raised

\* The last step ran one of the reads that have no try statement.
PlainRead == last.op \in {"fetch_open_orders", "fetch_ohlcvs", "init_order_book"}

\* The last operation raised in its caller.
RaisedToCaller ==
    \/ last.op = "fetch_position" /\ last.ret.raised
    \/ (PlainRead \/ Command) /\ last.out.raised

\* A request of the last operation met a venue or transport failure.
RequestFailed ==
    \/ last.op = "fetch_position" /\ last.failed # "none"
    \/ (PlainRead \/ Command)
          /\ last.outcome \in {"venue_error", "transport_error"}

\* C21 as stated: no public operation raises to its caller on a venue or
\* transport failure, the snapshot, the open-order fetch, the candle fetch
\* and the order book initialisation included.
C21_NoOperationRaises == RequestFailed => ~RaisedToCaller

\* C21, amended: execute_order and execute_cancellation return a value and
\* never raise; fetch_open_orders, fetch_position, fetch_ohlcvs and
\* init_order_book raise in their caller whenever a request of theirs meets
\* a venue or transport failure.
C21_OnlyCommandsAbsorb ==
    /\ Command => ~RaisedToCaller
    /\ (RequestFailed /\ ~Command) => RaisedToCaller
    /\ (last.op = "init_order_book" /\ last.out.raised) => ob = NoBook

\* The venue refused the open-order request, and the caller got the error.
C21_Witness ==
    /\ last.op = "fetch_open_orders"
    /\ last.outcome = "venue_error"
    /\ last.out.raised
    /\ last.out.exc = "HTTPRequestError"

\* The heartbeat has just tried a ping.
Pinged == last.op = "ping"

\* C22: the heartbeat loop has ended exactly when its last ping met a clean
\* close of the socket; after a ping that was sent, or that failed in any
\* other way, the loop is still running; and no ping changes the state of
\* the socket.
C22_HeartbeatEndsOnCleanClose ==
    /\ session.heartbeat = "done" => Pinged
    /\ Pinged =>
          /\ session.heartbeat = "done" <=> last.exc = "ConnectionClosedOK"
          /\ last.exc # "ConnectionClosedOK" =>
                session.heartbeat \in {"sleep", "send"}
          /\ last.ws_after = last.ws_before

\* A ping failed on a socket closed without a close frame, and the loop has
\* gone on to its next ping.
C22_Witness ==
    /\ Pinged
    /\ last.exc = "ConnectionClosedError"
    /\ session.heartbeat = "send"
    /\ session.pings = 1

\* The entries of a session's trace that are messages with the given op.
Sent(trace, op) == {i \in 1..Len(trace) : trace[i].op = op}

\* C23: on the user session every subscribe message comes after the auth
\* message and a wait between the two, there is at most one of each, and
\* the subscribe message names exactly the topics position, execution,
\* order and wallet; on the market session nothing is sent but one
\* subscribe message for the trade topic of the configured symbol.
C23_HandshakeOrder ==
    LET user == session.user_trace
        market == session.market_trace
    IN /\ \A i \in Sent(user, "subscribe") :
             /\ \E j \in Sent(user, "auth"), k \in Sent(user, "sleep") :
                   j < k /\ k < i
             /\ {user[i].args[a] : a \in 1..Len(user[i].args)} =
                   {"position", "execution", "order", "wallet"}
             /\ Len(user[i].args) = 4
       /\ Cardinality(Sent(user, "subscribe")) <= 1
       /\ Cardinality(Sent(user, "auth")) <= 1
       /\ session.subscribe_user = "done" =>
             Cardinality(Sent(user, "subscribe")) = 1
       /\ Sent(market, "auth") = {}
       /\ Len(market) <= 1
       /\ \A i \in 1..Len(market) :
             /\ market[i].op = "subscribe"
             /\ market[i].args = <<<<"trade.", symbol>>>>
       /\ session.subscribe_market = "done" => Len(market) = 1

\* Both handshakes are through, with a ping between auth and subscribe.
C23_Witness ==
    /\ session.subscribe_user = "done"
    /\ session.subscribe_market = "done"
    /\ Len(session.market_trace) = 1
    /\ \E i \in Sent(session.user_trace, "ping") :
          /\ \E j \in Sent(session.user_trace, "auth") : j < i
          /\ \E k \in Sent(session.user_trace, "subscribe") : i < k

\* A trade element that has every field of a Tick.
WellFormed(e) ==
    /\ DOMAIN e = {"trade_id", "price", "size", "side", "trade_time_ms"}

\* The Ticks of the well-formed elements of a message, in its order.
RECURSIVE TicksOf(_)
TicksOf(data) ==
    IF data = <<>> THEN <<>>
    ELSE LET e == Head(data)
         IN (IF WellFormed(e)
             THEN <<[trade_id |-> e.trade_id, price |-> e.price,
                     qty |-> e.size,
                     side |-> IF e.side = "Buy" THEN "buy" ELSE "sell",
                     timestamp |-> e.trade_time_ms]>>
             ELSE <<>>) \o TicksOf(Tail(data))

\* C24: standardize_market_stream_event raises nothing and returns the
\* Ticks of the well-formed elements of the message in their order, the
\* ones before and the ones after a malformed element alike.
C24_MalformedTickDropped ==
    last.op = "market_event" =>
        /\ ~last.out.raised
        /\ last.out.ret = TicksOf(last.data)

\* A malformed element between two well-formed ones; both are returned.
C24_Witness ==
    /\ last.op = "market_event"
    /\ Len(last.data) = 3
    /\ WellFormed(last.data[1])
    /\ ~WellFormed(last.data[2])
    /\ WellFormed(last.data[3])
    /\ last.data[1].trade_id # last.data[3].trade_id
    /\ Len(last.out.ret) = 2
    /\ last.out.ret[1].trade_id = last.data[1].trade_id
    /\ last.out.ret[2].trade_id = last.data[3].trade_id

\* The last step normalized an order message with an element lacking a key.
DamagedEvent == last.op = "user_stream_event_call"

\* An order element of the configured symbol whose status, or whose id
\* where the status needs it, is missing.
Unreadable(e) ==
    \/ "order_status" \notin DOMAIN e
    \/ e.order_status \in {"New", "PartiallyFilled", "Filled", "Cancelled"}
          /\ "order_id" \notin DOMAIN e

\* The elements of the last message that can be read.
ReadableData == SelectSeq(last.event.data, LAMBDA e : ~Unreadable(e))

\* C25 as stated: a malformed element of a user-stream message is dropped
\* alone; the normalization raises nothing and returns the changes of the
\* well-formed elements of the message.
C25_MalformedElementDroppedAlone ==
    DamagedEvent =>
        /\ ~last.out.raised
        /\ last.out.ret =
              standardize_user_stream_event(
                 symbol, market_type, inverse, position,
                 [topic |-> "order", data |-> ReadableData])

\* C25, amended: when an element of the message lacks a key its branch
\* reads, the normalization raises and returns nothing, the changes of the
\* well-formed elements of the message included; it returns only when the
\* missing key is never read.
C25_MalformedElementRaises ==
    DamagedEvent =>
        /\ last.out.raised <=>
              \E i \in 1..Len(last.event.data) : Unreadable(last.event.data[i])
        /\ last.out.raised => last.out.exc = "KeyError"

\* A New element and a Filled element without order_id: the insert of the
\* first is lost with the second.
C25_Witness ==
    /\ DamagedEvent
    /\ Len(last.event.data) = 2
    /\ ~Unreadable(last.event.data[1])
    /\ last.event.data[1].order_status = "New"
    /\ Unreadable(last.event.data[2])
    /\ last.out.raised

\* An adapter's init_market_type has run on some symbol name.
Resolved == last.op = "init_market_type"
VariantTags(mt) ==
    {t \in {"linear_perpetual", "inverse_perpetual", "inverse_futures"} :
       InMarketType(t, mt)}

\* C26: the variant follows from the symbol's suffix alone, whatever the
\* venue's metadata holds: a name ending in USDT is linear perpetual and not
\* inverse; one ending in USD is inverse perpetual, inverse, hedge mode off;
\* every other name is inverse futures and inverse; exactly one variant tag
\* is appended.
C26_SuffixResolution ==
    Resolved =>
      LET s == last.symbol
          v == last.variant
      IN /\ EndsWith(s, USDT) =>
              VariantTags(v.market_type) = {"linear_perpetual"} /\ ~v.inverse
         /\ EndsWith(s, USD) /\ ~EndsWith(s, USDT) =>
              /\ VariantTags(v.market_type) = {"inverse_perpetual"}
              /\ v.inverse /\ ~v.hedge_mode
         /\ ~EndsWith(s, USD) /\ ~EndsWith(s, USDT) =>
              VariantTags(v.market_type) = {"inverse_futures"} /\ v.inverse
C26_Witness ==
    /\ Resolved
    /\ last.symbol = <<"U", "S", "D", "T", "H", "2", "2">>
    /\ VariantTags(last.variant.market_type) = {"inverse_futures"}
    /\ last.out.raised

\* The places of the venue's list that name the configured symbol.
ListedAt == {i \in DOMAIN last.results : last.results[i].name = last.symbol}

\* C27: init_market_type raises when no entry of the venue's list names the
\* configured symbol, the empty list included, and then no trading constant
\* is written; otherwise the constants are those of the first entry that
\* names it.
C27_UnlistedSymbolFails ==
    Resolved =>
      IF ListedAt = {}
      THEN last.out.raised /\ last.out.constants = NoConstants
      ELSE LET first == last.results[CHOOSE i \in ListedAt :
                                       \A j \in ListedAt : i <= j]
               c == last.out.constants
           IN /\ ~last.out.raised
              /\ c.max_leverage = first.leverage_filter.max_leverage
              /\ c.coin = first.base_currency
              /\ c.quote = first.quote_currency
              /\ c.price_step = float(first.price_filter.tick_size)
              /\ c.qty_step = float(first.lot_size_filter.qty_step)
              /\ c.min_qty = float(first.lot_size_filter.min_trading_qty)
              /\ c.margin_coin = IF last.variant.inverse THEN first.base_currency
                                 ELSE first.quote_currency
C27_Witness ==
    /\ Resolved
    /\ last.results = <<>>
    /\ last.out.raised
    /\ last.out.constants = NoConstants
\* Two entries name the symbol with different constants; the first counts.
C27_FirstOfSeveral ==
    /\ Resolved
    /\ last.results = <<SymbolData(last.symbol, 2), SymbolData(last.symbol, 1)>>
    /\ ~last.out.raised
    /\ last.out.constants.max_leverage = 100
    /\ last.out.constants.qty_step = 10

\* The variant a symbol name belongs to, by its suffix.
SuffixClass(s) ==
    IF EndsWith(s, USDT) THEN 1 ELSE IF EndsWith(s, USD) THEN 2 ELSE 3
PrivateKeys == {"position", "open_orders", "fills"}
SharedKeys == {"balance", "exchange_info", "ticker"}

\* C28 as stated: against the table of any symbol of another variant, the
\* paths of position, open_orders, fills and ohlcvs all differ, and those of
\* balance, exchange_info and ticker are the same.
C28_DisjointTables ==
    Resolved =>
      \A other \in InitSymbols :
        LET mine == last.endpoints
            theirs == get_httpclient(other)
        IN /\ SuffixClass(other) # SuffixClass(last.symbol) =>
                \A k \in PrivateKeys \cup {"ohlcvs"} : mine[k] # theirs[k]
           /\ \A k \in SharedKeys : mine[k] = theirs[k]

\* C28, amended: position, open_orders and fills differ between any two
\* variants; ohlcvs differs between linear and either inverse variant and is
\* the same path for inverse perpetual and inverse futures; balance,
\* exchange_info and ticker are the same in all three.
C28_DisjointPrivateTables ==
    Resolved =>
      \A other \in InitSymbols :
        LET mine == last.endpoints
            theirs == get_httpclient(other)
            a == SuffixClass(last.symbol)
            b == SuffixClass(other)
        IN /\ a # b => \A k \in PrivateKeys : mine[k] # theirs[k]
           /\ a # b /\ 1 \in {a, b} => mine.ohlcvs # theirs.ohlcvs
           /\ {a, b} = {2, 3} => mine.ohlcvs = theirs.ohlcvs
           /\ \A k \in SharedKeys : mine[k] = theirs[k]
C28_Witness ==
    /\ Resolved
    /\ last.symbol = BTCUSDH22
    /\ last.endpoints.ohlcvs = get_httpclient(BTCUSD).ohlcvs
    /\ last.endpoints.position # get_httpclient(BTCUSD).position
    /\ last.endpoints.position # get_httpclient(BTCUSDT).position

\* C29: no operation after init_market_type writes the variant: the
\* snapshot, the reads, submit, cancel, the exchange configuration, the
\* income pages and the normalization of streamed events leave market_type,
\* inverse and hedge_mode as they were.
C29_VariantFrame ==
    [][/\ market_type' = market_type
       /\ inverse' = inverse
       /\ hedge_mode' = hedge_mode]_vars
C29_Witness ==
    /\ last.op = "init_exchange_config"
    /\ market_type = <<ConfigMarketType, "linear_perpetual">>
    /\ ~inverse
    /\ hedge_mode

\* An order message was normalized whole.
OrderMessage ==
    /\ last.op = "user_stream_event"
    /\ last.topic = "order"
    /\ "event" \in DOMAIN last

\* C30 as stated: whatever the number of elements of the configured symbol
\* in one order message, the canonical event inserts the order of every New
\* element and removes the order id of every PartiallyFilled, Filled or
\* Cancelled element.
C30_NoStatusChangeLost ==
    OrderMessage =>
      \A i \in DOMAIN last.event.data :
        LET elm == last.event.data[i]
            std == last.standardized
        IN elm.symbol = symbol =>
             /\ elm.order_status = "New" =>
                   /\ Has(std, "new_open_order")
                   /\ std["new_open_order"].order_id = elm.order_id
             /\ elm.order_status \in {"PartiallyFilled", "Filled", "Cancelled"} =>
                   /\ Has(std, "deleted_order_id")
                   /\ std["deleted_order_id"] = elm.order_id

\* The legs a position response holds, as fetch_position would store them:
\* the listed legs, or for the one-way variant the one leg and a flat one.
ResponseLegs(sign) ==
    LET stored(l) == [size |-> sign * l.size, price |-> l.entry_price,
                      liquidation_price |-> l.liq_price]
    IN IF InMarketType("inverse_perpetual", market_type)
       THEN {stored(last.result), [size |-> 0, price |-> 0, liquidation_price |-> 0]}
       ELSE {stored(last.result[i]) : i \in DOMAIN last.result}

\* C31: whatever streamed position updates arrive while a snapshot is under
\* way, the Position it yields has both legs from its own position response,
\* whole, and that pair is what the local position holds once it returns.
C31_SnapshotPairFromOneResponse ==
    (JoinedSnapshot /\ ~last.ret.raised) =>
        /\ last.ret.value.long \in ResponseLegs(1)
        /\ last.ret.value.short \in ResponseLegs(-1)
        /\ position = last.ret.value
\* A streamed update changed the short leg while the snapshot was suspended;
\* the snapshot returned the short leg of its response all the same.
C31_Witness ==
    /\ JoinedSnapshot
    /\ ~last.ret.raised
    /\ last.position_before.short.size < 0
    /\ last.ret.value.short.size = 0
    /\ last.ret.value.long.size > 0
    /\ position = last.ret.value

\* The family of the private paths of an endpoint table: "linear" when they
\* are the /private/linear ones, "v2" when the /v2/private ones, "futures"
\* when the /futures/private ones, "mixed" otherwise.
PathFamily(endpoints) ==
    LET private == <<endpoints.position, endpoints.open_orders,
                     endpoints.create_order, endpoints.cancel_order,
                     endpoints.fills, endpoints.income>>
    IN IF private = <<"/private/linear/position/list",
                      "/private/linear/order/search",
                      "/private/linear/order/create",
                      "/private/linear/order/cancel",
                      "/private/linear/trade/execution/list",
                      "/private/linear/trade/closed-pnl/list">>
       THEN "linear"
       ELSE IF private = <<"/v2/private/position/list", "/v2/private/order",
                           "/v2/private/order/create", "/v2/private/order/cancel",
                           "/v2/private/execution/list",
                           "/v2/private/trade/closed-pnl/list">>
       THEN "v2"
       ELSE IF private = <<"/futures/private/position/list",
                           "/futures/private/order",
                           "/futures/private/order/create",
                           "/futures/private/order/cancel",
                           "/futures/private/execution/list",
                           "/futures/private/trade/closed-pnl/list">>
       THEN "futures"
       ELSE "mixed"

\* C32: for every symbol name the endpoint table and the variant agree:
\* linear paths exactly with linear perpetual, /v2/private paths exactly with
\* inverse perpetual, /futures/private paths exactly with inverse futures;
\* the market type carries exactly one variant tag, and fetch_position on
\* it never fails with "unknown market type", whatever the venue answers.
C32_TableAgreesWithVariant ==
    Resolved =>
      LET tags == VariantTags(last.variant.market_type)
          family == PathFamily(last.endpoints)
      IN /\ family = "linear" <=> tags = {"linear_perpetual"}
         /\ family = "v2" <=> tags = {"inverse_perpetual"}
         /\ family = "futures" <=> tags = {"inverse_futures"}
         /\ family # "mixed"
         /\ Cardinality(tags) = 1
         /\ \A result \in PositionResults(last.variant.market_type) :
               LET r == fetch_position(last.variant.market_type, "none",
                                       result, 0)
               IN r.raised => r.exc # "Exception"
C32_Witness ==
    /\ Resolved
    /\ last.symbol = <<"U", "S", "D", "T", "H", "2", "2">>
    /\ PathFamily(last.endpoints) = "futures"
    /\ VariantTags(last.variant.market_type) = {"inverse_futures"}

\* get_all_income ran against a venue that fails the request for one page.
FailingIncomeRun == last.op = "get_all_income" /\ last.venue.fail.page >= 1

\* C33: get_all_income raises nothing when a page request fails, by a venue
\* error or in transport; when the failing page k is requested it is the
\* last one requested, and what is returned are the records the venue gave
\* on pages 1..k-1, each transaction id once, in timestamp order.
C33_FailedPageEndsPaging ==
    FailingIncomeRun =>
      /\ ~last.out.raised
      /\ LET k == last.venue.fail.page
             trace == last.out.trace
             ret == last.out.ret
             given == UNION {{RawPage(last.venue, j)[i].id :
                                i \in 1..Len(RawPage(last.venue, j))} :
                             j \in 1..(k - 1)}
         IN Len(trace) >= k =>
              /\ Len(trace) = k
              /\ trace[k].fetched = <<>>
              /\ {ret[i].transaction_id : i \in 1..Len(ret)} = given
              /\ Len(ret) = Cardinality(given)
              /\ \A i, j \in 1..Len(ret) :
                    i < j => ret[i].timestamp <= ret[j].timestamp
\* Two full pages that share a record, then the third request fails in
\* transport: the records of the two pages come back, the shared one once.
C33_Witness ==
    /\ FailingIncomeRun
    /\ last.venue.fail = [page |-> 3, kind |-> "transport_error"]
    /\ last.venue.shift = 1
    /\ ~last.out.raised
    /\ Len(last.out.trace) = 3
    /\ Len(last.out.income) = 2 * PageSize
    /\ Len(last.out.ret) = 2 * PageSize - 1

\* The places of a message's data whose element is a source of the wallet
\* balance for the variant: in the inverse variants the position elements
\* of the configured symbol, in the linear one the wallet elements.
BalanceSources(inv, sym, event) ==
    {i \in DOMAIN event.data :
       IF inv THEN event.topic = "position" /\ event.data[i].symbol = sym
       ELSE event.topic = "wallet"}

\* C34: a streamed message of any topic carries a wallet balance exactly
\* when it holds a source of the variant, then the balance of the last such
\* element, which becomes the local one; any other message, a wallet message
\* in an inverse variant and a position message in the linear one among
\* them, leaves the local wallet balance as it was.
C34_OneBalanceSource ==
    [][(last'.op = "user_stream_event" /\ "event" \in DOMAIN last') =>
         LET event == last'.event
             std == last'.standardized
             sources == BalanceSources(inverse, symbol, event)
         IN IF sources = {}
            THEN /\ ~Has(std, "wallet_balance")
                 /\ position'.wallet_balance = position.wallet_balance
            ELSE LET at == CHOOSE i \in sources : \A j \in sources : j <= i
                 IN /\ Has(std, "wallet_balance")
                    /\ std["wallet_balance"] = event.data[at].wallet_balance
                    /\ position'.wallet_balance = event.data[at].wallet_balance
      ]_vars
\* A wallet message with another balance than the local one reached an
\* adapter of an inverse variant and changed nothing.
C34_Witness ==
    /\ last.op = "user_stream_event"
    /\ "event" \in DOMAIN last
    /\ inverse
    /\ last.topic = "wallet"
    /\ ~Has(last.standardized, "wallet_balance")
    /\ last.event.data[1].wallet_balance # position.wallet_balance

============================================================================
